---- MODULE Spec2Model ----
(***************************************************************************)
(* A model of the run controller of llama_viz: the background callback     *)
(* _run_workflow of class Viz (src/llama_viz/viz.py), the clear_events     *)
(* callback, the Dash components they read and write, and the workflow     *)
(* engine as the callback sees it (workflow.run, the handler's event       *)
(* stream, Context.send_event).                                            *)
(*                                                                         *)
(* Python values are records of one shape (see Val below); a text is a    *)
(* sequence of characters.  The pure functions of src/llama_viz/utils.py   *)
(* are operators over these values, and a second specification, SpecFn,    *)
(* applies them to bounded sets of arguments.                              *)
(*                                                                         *)
(* Scope: one invocation of _run_workflow is handled at a time.  What the   *)
(* callback manager does with a trigger that arrives while an invocation   *)
(* is still running is decided outside the repository and is not modelled. *)
(* The values a return hands back are applied to the components they are   *)
(* built for (input widgets, output widgets, modal, chat, events store).   *)
(***************************************************************************)
EXTENDS Integers, Sequences, FiniteSets, TLC

\* Bounds of the model.
MaxCalls == 2      \* invocations of _run_workflow in one session
MaxEvents == 2     \* non-terminal events the engine emits in one session
MaxQueue == 2      \* events waiting in a handler's stream
MaxText == 3       \* characters of a text handed to parse_input_value

----------------------------------------------------------------------------
\* Python values.  Every value is a record with the same fields:
\*   t     the type: "none", "str", "int", "float", "bool", "dict", "list",
\*         "model" (a pydantic model), "frame" (a pandas DataFrame), "obj"
\*         (any other object), or "raise" for an exception that propagates
\*         instead of a value;
\*   s     text: the characters of a str, the text str() gives for an
\*         object, the name of the exception of a raise;
\*   n, d  number: an int is n, a bool is n (0 or 1), a float is n / 10^d
\*         written without a trailing zero in its fraction;
\*   f     the items of a dict, the attributes of an object, the elements
\*         of a list or the rows of a frame, in order, as <<name, value>>
\*         pairs (the name of an element or a row is "").
Val(t, s, n, d, f) == [t |-> t, s |-> s, n |-> n, d |-> d, f |-> f]

PyNone == Val("none", << >>, 0, 0, << >>)
PyStr(s) == Val("str", s, 0, 0, << >>)
PyInt(n) == Val("int", << >>, n, 0, << >>)
PyBool(b) == Val("bool", << >>, IF b THEN 1 ELSE 0, 0, << >>)
PyDict(f) == Val("dict", << >>, 0, 0, f)
PyList(f) == Val("list", << >>, 0, 0, f)
PyObj(s, f) == Val("obj", s, 0, 0, f)
PyModel(s, f) == Val("model", s, 0, 0, f)
PyFrame(s, f) == Val("frame", s, 0, 0, f)
Raise(exc) == Val("raise", << exc >>, 0, 0, << >>)

RECURSIVE PyFloat(_, _)
PyFloat(n, d) ==
    IF d > 0 /\ n % 10 = 0 THEN PyFloat(n \div 10, d - 1)
    ELSE Val("float", << >>, n, d, << >>)

Raises(v, excs) == v.t = "raise" /\ v.s[1] \in excs

\* A dict key json.dumps rejects (a tuple), whatever default= is.
TupleKey == "(1, 2)"

\* Python truthiness of a value.
Truthy(v) ==
    CASE v.t = "none" -> FALSE
      [] v.t = "str" -> v.s # << >>
      [] v.t \in {"int", "float", "bool"} -> v.n # 0
      [] v.t \in {"dict", "list"} -> v.f # << >>
      [] OTHER -> TRUE

\* The workflow's declared start-event fields (name, type), in order, and
\* the default stop event's single output.
Inputs == << [name |-> "query", type |-> "str"] >>
Outputs == << [name |-> "result", type |-> "str"] >>

\* What the user can type into an input widget / the modal text area.
RawInputs == {PyStr(<< "2" >>)}
ModalTexts == {PyStr(<< >>), PyStr(<< "5" >>)}

\* Events of the engine.
EventKinds == {"Info", "Error"}

\* What event.model_dump() gives: the dict of an event without fields; for
\* an event that cannot be serialized, an exception of model_dump or a dict
\* json.dumps rejects.
EventData == PyDict(<< >>)
UnserializableData ==
    {Raise("ValueError"), PyDict(<< << TupleKey, PyInt(1) >> >>)}
Results == {PyNone, PyStr(<< >>), PyStr(<< "4" >>)}
Prompts == {PyStr(<< "Enter a number: " >>)}

EmptyEventsData == [events |-> << >>, count |-> 0]
NoCb == [triggered_id |-> "None", modal_input_value |-> PyNone,
         chat_messages |-> << >>, events_data |-> EmptyEventsData,
         event_count |-> 0, result |-> PyNone]
NoHandler == [ctx |-> 0, queue |-> << >>, done |-> FALSE]
NoPush == [events |-> << >>, count |-> -1]

\* The text the layout gives the modal's prompt.
DefaultPrompt == PyStr(<< "Please provide input:" >>)

\* No pure function has been applied.
NoCall == [fn |-> "none", done |-> FALSE]

VARIABLES
    self_ctx,        \* Viz._ctx: 0 is None, n > 0 the n-th execution context
    store,           \* dcc.Store "events-data", property data
    chat,            \* "chat-messages", property children
    is_open,         \* "input-modal", property is_open
    disabled,        \* "button-run", property disabled
    input_widgets,   \* "input-<name>" values, one per declared input
    modal_input,     \* "modal-input", property value
    output_widgets,  \* "output-<name>" values, one per declared output
    pc,              \* position of the invocation: "idle", "stream", "return"
    cb,              \* locals of the running invocation of _run_workflow
    handler,         \* the WorkflowHandler of the running invocation
    engine,          \* the engine: contexts made, events emitted, calls seen
    obs,             \* what an observer of the current run has seen so far
    modal_prompt,    \* "modal-prompt", property children
    call             \* SpecFn: the last application of a pure function

vars == << self_ctx, store, chat, is_open, disabled, input_widgets,
           modal_input, output_widgets, pc, cb, handler, engine, obs,
           modal_prompt, call >>

ui == << chat, is_open, input_widgets, modal_input, output_widgets,
         modal_prompt >>

----------------------------------------------------------------------------
\* Pure helpers.

IsPrefix(s, t) == Len(s) <= Len(t) /\ SubSeq(t, 1, Len(s)) = s

\* Texts.
Digits == << "0", "1", "2", "3", "4", "5", "6", "7", "8", "9" >>
IsDigit(c) == \E i \in 1..Len(Digits) : Digits[i] = c
DigitValue(c) == (CHOOSE i \in 1..Len(Digits) : Digits[i] = c) - 1
Whitespace == {" "}

RECURSIVE Pow10(_)
Pow10(d) == IF d = 0 THEN 1 ELSE 10 * Pow10(d - 1)

RECURSIVE lstrip(_)
lstrip(s) ==
    IF s # << >> /\ Head(s) \in Whitespace THEN lstrip(Tail(s)) ELSE s

RECURSIVE rstrip(_)
rstrip(s) ==
    IF s # << >> /\ s[Len(s)] \in Whitespace
    THEN rstrip(SubSeq(s, 1, Len(s) - 1))
    ELSE s

strip(s) == rstrip(lstrip(s))

\* A numeral's sign and what follows it.
Sign(s) == IF s # << >> /\ Head(s) = "-" THEN -1 ELSE 1
Unsigned(s) == IF s # << >> /\ Head(s) \in {"+", "-"} THEN Tail(s) ELSE s

\* Decimal digits, which Python lets be grouped by single underscores.
IsDigitString(s) ==
    /\ s # << >>
    /\ IsDigit(s[1]) /\ IsDigit(s[Len(s)])
    /\ \A i \in 1..Len(s) :
          IsDigit(s[i]) \/ (s[i] = "_" /\ i > 1 /\ s[i - 1] # "_")

RECURSIVE DigitsValue(_)
DigitsValue(s) ==
    IF s = << >> THEN 0
    ELSE LET front == SubSeq(s, 1, Len(s) - 1)
         IN  IF s[Len(s)] = "_" THEN DigitsValue(front)
             ELSE 10 * DigitsValue(front) + DigitValue(s[Len(s)])

NumDigits(s) == Cardinality({i \in 1..Len(s) : IsDigit(s[i])})

RECURSIVE NatText(_)
NatText(n) ==
    IF n < 10 THEN << Digits[n + 1] >>
    ELSE NatText(n \div 10) \o << Digits[(n % 10) + 1] >>

IntText(n) == IF n < 0 THEN << "-" >> \o NatText(-n) ELSE NatText(n)

\* The last d digits of m, with leading zeros.
RECURSIVE PadText(_, _)
PadText(m, d) ==
    IF d = 0 THEN << >>
    ELSE PadText(m \div 10, d - 1) \o << Digits[(m % 10) + 1] >>

FloatText(n, d) ==
    LET m == IF n < 0 THEN -n ELSE n
    IN  (IF n < 0 THEN << "-" >> ELSE << >>)
        \o NatText(m \div Pow10(d)) \o << "." >>
        \o (IF d = 0 THEN << "0" >> ELSE PadText(m % Pow10(d), d))

\* The builtin int(value).
int(value) ==
    CASE value.t = "str" ->
            LET text == strip(value.s)
            IN  IF IsDigitString(Unsigned(text))
                THEN PyInt(Sign(text) * DigitsValue(Unsigned(text)))
                ELSE Raise("ValueError")
      [] value.t \in {"int", "bool"} -> PyInt(value.n)
      [] value.t = "float" ->
            PyInt(IF value.n < 0 THEN -((-value.n) \div Pow10(value.d))
                  ELSE value.n \div Pow10(value.d))
      [] OTHER -> Raise("TypeError")

\* The builtin float(value), for texts without an exponent.
float(value) ==
    CASE value.t = "str" ->
            LET text == strip(value.s)
                body == Unsigned(text)
                dots == {i \in 1..Len(body) : body[i] = "."}
                dot == CHOOSE i \in dots : TRUE
                whole == SubSeq(body, 1, dot - 1)
                frac == SubSeq(body, dot + 1, Len(body))
            IN  IF dots = {}
                THEN (IF IsDigitString(body)
                      THEN PyFloat(Sign(text) * DigitsValue(body), 0)
                      ELSE Raise("ValueError"))
                ELSE IF /\ Cardinality(dots) = 1
                        /\ whole = << >> \/ IsDigitString(whole)
                        /\ frac = << >> \/ IsDigitString(frac)
                        /\ whole \o frac # << >>
                THEN PyFloat(Sign(text)
                                * (DigitsValue(whole) * Pow10(NumDigits(frac))
                                   + DigitsValue(frac)),
                             NumDigits(frac))
                ELSE Raise("ValueError")
      [] value.t \in {"int", "bool"} -> PyFloat(value.n, 0)
      [] value.t = "float" -> value
      [] OTHER -> Raise("TypeError")

\* The builtin bool(value).
bool(value) == PyBool(Truthy(value))

\* repr(value), the text str() gives for everything but a str.
RECURSIVE ReprText(_)
ReprItems(f, i) ==
    (IF i > 1 THEN << ",", " " >> ELSE << >>)
    \o (IF f[i][1] = "" THEN << >>
        ELSE IF f[i][1] = TupleKey THEN << f[i][1], ":", " " >>
        ELSE << "'", f[i][1], "'", ":", " " >>)
    \o ReprText(f[i][2])
RECURSIVE ReprJoin(_, _)
ReprJoin(f, i) ==
    IF i > Len(f) THEN << >> ELSE ReprItems(f, i) \o ReprJoin(f, i + 1)
ReprText(v) ==
    CASE v.t = "none" -> << "N", "o", "n", "e" >>
      [] v.t = "str" -> << "'" >> \o v.s \o << "'" >>
      [] v.t = "int" -> IntText(v.n)
      [] v.t = "float" -> FloatText(v.n, v.d)
      [] v.t = "bool" -> IF v.n = 1 THEN << "T", "r", "u", "e" >>
                         ELSE << "F", "a", "l", "s", "e" >>
      [] v.t = "dict" -> << "{" >> \o ReprJoin(v.f, 1) \o << "}" >>
      [] v.t = "list" -> << "[" >> \o ReprJoin(v.f, 1) \o << "]" >>
      [] OTHER -> v.s

\* The builtin str(value).
str(value) == IF value.t = "str" THEN value ELSE PyStr(ReprText(value))

\* The escape sequence json writes for a character of a string.
EscapeChar(c) ==
    CASE c = "\"" -> << "\\", "\"" >>
      [] c = "\\" -> << "\\", "\\" >>
      [] c = "\n" -> << "\\", "n" >>
      [] c = "\r" -> << "\\", "r" >>
      [] c = "\t" -> << "\\", "t" >>
      [] OTHER -> << c >>

RECURSIVE JsonEscape(_)
JsonEscape(s) ==
    IF s = << >> THEN << >> ELSE EscapeChar(Head(s)) \o JsonEscape(Tail(s))

\* json.dumps(value, indent=2, default=str): the JSON text, written without
\* the line breaks and spaces of the indentation; a value json does not
\* know is written as the JSON string of its str().
RECURSIVE JsonText(_)
JsonItems(f, i) ==
    (IF i > 1 THEN << "," >> ELSE << >>)
    \o (IF f[i][1] = "" THEN << >>
        ELSE << "\"" >> \o EscapeChar(f[i][1]) \o << "\"", ":", " " >>)
    \o JsonText(f[i][2])
RECURSIVE JsonJoin(_, _)
JsonJoin(f, i) ==
    IF i > Len(f) THEN << >> ELSE JsonItems(f, i) \o JsonJoin(f, i + 1)
JsonText(v) ==
    CASE v.t = "none" -> << "n", "u", "l", "l" >>
      [] v.t = "str" -> << "\"" >> \o JsonEscape(v.s) \o << "\"" >>
      [] v.t = "int" -> IntText(v.n)
      [] v.t = "float" -> FloatText(v.n, v.d)
      [] v.t = "bool" -> IF v.n = 1 THEN << "t", "r", "u", "e" >>
                         ELSE << "f", "a", "l", "s", "e" >>
      [] v.t = "dict" -> << "{" >> \o JsonJoin(v.f, 1) \o << "}" >>
      [] v.t = "list" -> << "[" >> \o JsonJoin(v.f, 1) \o << "]" >>
      [] OTHER -> << "\"" >> \o v.s \o << "\"" >>

RECURSIVE JsonKeysOk(_)
JsonKeysOk(v) ==
    v.t \in {"dict", "list"} =>
        \A i \in 1..Len(v.f) : v.f[i][1] # TupleKey /\ JsonKeysOk(v.f[i][2])

json_dumps(value) ==
    IF JsonKeysOk(value) THEN PyStr(JsonText(value)) ELSE Raise("TypeError")

\* json.loads: the decoder of the json module, for texts whose strings hold
\* no escape other than \" \\ \/ \n \r \t.  A scan gives the value read and
\* the position after it, or fails.
JsonWhitespace == {" ", "\t", "\n", "\r"}
ControlChars == {"\t", "\n", "\r"}

ScanFail == [ok |-> FALSE, v |-> PyNone, end |-> 0]
ScanOk(v, end) == [ok |-> TRUE, v |-> v, end |-> end]

\* The character at a position, "" past the end of the text.
At(s, i) == IF i >= 1 /\ i <= Len(s) THEN s[i] ELSE ""

StartsWith(s, i, word) ==
    /\ i + Len(word) - 1 <= Len(s)
    /\ SubSeq(s, i, i + Len(word) - 1) = word

RECURSIVE SkipWs(_, _)
SkipWs(s, i) ==
    IF At(s, i) \in JsonWhitespace THEN SkipWs(s, i + 1) ELSE i

RECURSIVE DigitsEnd(_, _)
DigitsEnd(s, i) == IF IsDigit(At(s, i)) THEN DigitsEnd(s, i + 1) ELSE i

Unescape(c) ==
    CASE c = "n" -> "\n"
      [] c = "r" -> "\r"
      [] c = "t" -> "\t"
      [] OTHER -> c

\* scanstring, from the position after the opening quote.
RECURSIVE ScanString(_, _, _)
ScanString(s, i, chars) ==
    IF i > Len(s) THEN ScanFail
    ELSE IF s[i] = "\"" THEN ScanOk(PyStr(chars), i + 1)
    ELSE IF s[i] = "\\"
    THEN (IF At(s, i + 1) \in {"\"", "\\", "/", "n", "r", "t"}
          THEN ScanString(s, i + 2, Append(chars, Unescape(s[i + 1])))
          ELSE ScanFail)
    ELSE IF s[i] \in ControlChars THEN ScanFail
    ELSE ScanString(s, i + 1, Append(chars, s[i]))

\* A float that is not a number or not finite.
NonFinite(name) == Val("float", << name >>, 0, 0, << >>)

\* NUMBER_RE: (-?(?:0|[1-9]\d*))(\.\d+)?([eE][-+]?\d+)?, an int when it has
\* neither fraction nor exponent, a float otherwise.  The match is made in
\* steps, each handing the positions it found to the next: first is the
\* position after the sign, int_end, frac_end and exp_end those after the
\* integer part, the fraction and the exponent.
NumberValue(s, i, first, int_end, frac_end, exp_first, exp_end) ==
    LET has_frac == frac_end > int_end
        has_exp == exp_end > frac_end
        sign == IF first > i THEN -1 ELSE 1
        places == IF has_frac THEN frac_end - int_end - 1 ELSE 0
        frac == IF has_frac
                THEN DigitsValue(SubSeq(s, int_end + 1, frac_end - 1)) ELSE 0
        n == sign * (DigitsValue(SubSeq(s, first, int_end - 1)) * Pow10(places)
                     + frac)
        e == IF has_exp THEN DigitsValue(SubSeq(s, exp_first, exp_end - 1))
             ELSE 0
    IN  IF int_end = first THEN ScanFail
        ELSE IF ~has_frac /\ ~has_exp THEN ScanOk(PyInt(n), int_end)
        ELSE IF has_exp /\ At(s, frac_end + 1) = "-"
        THEN ScanOk(PyFloat(n, places + e), exp_end)
        ELSE IF e >= places THEN ScanOk(PyFloat(n * Pow10(e - places), 0), exp_end)
        ELSE ScanOk(PyFloat(n, places - e), exp_end)

NumberExponent(s, i, first, int_end, frac_end, exp_first) ==
    NumberValue(s, i, first, int_end, frac_end, exp_first,
                IF At(s, frac_end) \in {"e", "E"} /\ IsDigit(At(s, exp_first))
                THEN DigitsEnd(s, exp_first) ELSE frac_end)

NumberFraction(s, i, first, int_end, frac_end) ==
    NumberExponent(s, i, first, int_end, frac_end,
                   IF At(s, frac_end + 1) \in {"-", "+"}
                   THEN frac_end + 2 ELSE frac_end + 1)

NumberInteger(s, i, first, int_end) ==
    NumberFraction(s, i, first, int_end,
                   IF At(s, int_end) = "." /\ IsDigit(At(s, int_end + 1))
                   THEN DigitsEnd(s, int_end + 1) ELSE int_end)

NumberSign(s, i, first) ==
    NumberInteger(s, i, first,
                  IF At(s, first) = "0" THEN first + 1 ELSE DigitsEnd(s, first))

ScanNumber(s, i) == NumberSign(s, i, IF At(s, i) = "-" THEN i + 1 ELSE i)

\* The items of a dict after key is set to value.
SetItem(items, key, value) ==
    IF \E k \in 1..Len(items) : items[k][1] = key
    THEN [k \in 1..Len(items) |->
             IF items[k][1] = key THEN << key, value >> ELSE items[k]]
    ELSE Append(items, << key, value >>)

\* A key is one character long in the texts of the model.
KeyOf(chars) == IF chars = << >> THEN "" ELSE chars[1]

RECURSIVE ScanValue(_, _)
RECURSIVE ScanArray(_, _, _)
RECURSIVE ScanObject(_, _, _)

\* JSONArray after an element r was read and the white space behind it
\* skipped up to j.
ArrayNext(s, r, j, elements) ==
    IF ~r.ok THEN ScanFail
    ELSE IF At(s, j) = "]"
    THEN ScanOk(PyList(Append(elements, << "", r.v >>)), j + 1)
    ELSE IF At(s, j) = ","
    THEN ScanArray(s, SkipWs(s, j + 1), Append(elements, << "", r.v >>))
    ELSE ScanFail

ArrayElement(s, r, elements) == ArrayNext(s, r, SkipWs(s, r.end), elements)

\* JSONArray, from the first element on.
ScanArray(s, i, elements) == ArrayElement(s, ScanValue(s, i), elements)

\* JSONObject after the key k, the colon and the value r were read and the
\* white space behind the value skipped up to j.
ObjectNext(s, k, r, j, items) ==
    IF ~r.ok THEN ScanFail
    ELSE IF At(s, j) = "}"
    THEN ScanOk(PyDict(SetItem(items, KeyOf(k.v.s), r.v)), j + 1)
    ELSE IF At(s, j) = ","
    THEN ScanObject(s, SkipWs(s, j + 1), SetItem(items, KeyOf(k.v.s), r.v))
    ELSE ScanFail

ObjectValue(s, k, r, items) == ObjectNext(s, k, r, SkipWs(s, r.end), items)

ObjectColon(s, k, colon, items) ==
    IF ~k.ok THEN ScanFail
    ELSE IF At(s, colon) # ":" THEN ScanFail
    ELSE ObjectValue(s, k, ScanValue(s, SkipWs(s, colon + 1)), items)

ObjectKey(s, k, items) == ObjectColon(s, k, SkipWs(s, k.end), items)

\* JSONObject, from the first key on.
ScanObject(s, i, items) ==
    IF At(s, i) # "\"" THEN ScanFail
    ELSE ObjectKey(s, ScanString(s, i + 1, << >>), items)

\* The constants NaN, Infinity and -Infinity, tried after the number num.
NumberOrConstant(s, i, num) ==
    IF num.ok THEN num
    ELSE IF StartsWith(s, i, << "N", "a", "N" >>)
    THEN ScanOk(NonFinite("nan"), i + 3)
    ELSE IF StartsWith(s, i, << "I", "n", "f", "i", "n", "i", "t", "y" >>)
    THEN ScanOk(NonFinite("inf"), i + 8)
    ELSE IF StartsWith(s, i, << "-", "I", "n", "f", "i", "n", "i", "t", "y" >>)
    THEN ScanOk(NonFinite("-inf"), i + 9)
    ELSE ScanFail

\* A JSONObject or a JSONArray whose first token after the bracket is at j.
ScanBracket(s, i, j) ==
    IF At(s, i) = "{"
    THEN (IF At(s, j) = "}" THEN ScanOk(PyDict(<< >>), j + 1)
          ELSE ScanObject(s, j, << >>))
    ELSE (IF At(s, j) = "]" THEN ScanOk(PyList(<< >>), j + 1)
          ELSE ScanArray(s, j, << >>))

\* scan_once.
ScanValue(s, i) ==
    IF At(s, i) = "\"" THEN ScanString(s, i + 1, << >>)
    ELSE IF At(s, i) \in {"{", "["} THEN ScanBracket(s, i, SkipWs(s, i + 1))
    ELSE IF StartsWith(s, i, << "n", "u", "l", "l" >>)
    THEN ScanOk(PyNone, i + 4)
    ELSE IF StartsWith(s, i, << "t", "r", "u", "e" >>)
    THEN ScanOk(PyBool(TRUE), i + 4)
    ELSE IF StartsWith(s, i, << "f", "a", "l", "s", "e" >>)
    THEN ScanOk(PyBool(FALSE), i + 5)
    ELSE NumberOrConstant(s, i, ScanNumber(s, i))

\* raw_decode and the test for extra data behind the value.
DecodedValue(s, r) ==
    IF r.ok /\ SkipWs(s, r.end) = Len(s) + 1 THEN r.v
    ELSE Raise("JSONDecodeError")

\* json.loads(value): a value that is not a text is a TypeError; a text
\* must hold one JSON value and white space.
json_loads(value) ==
    IF value.t # "str" THEN Raise("TypeError")
    ELSE DecodedValue(value.s, ScanValue(value.s, SkipWs(value.s, 1)))

\* Type hints are written by name.  A union such as "int | None" is not a
\* class and has no __name__.
IsClass(type_hint) == type_hint # "int | None"
HasName(type_hint) == type_hint # "int | None"

\* A variant without the except clause: the exception propagates.
ExceptReturnUncaught(result, excs, fallback) == result

\* try: return <result> except <excs>: return <fallback>.
ExceptReturn(result, excs, fallback) ==
    IF Raises(result, excs) THEN fallback ELSE result

\* A variant that gives None when the text is not JSON.
JsonOrDefaultNone(value, default) ==
    ExceptReturn(json_loads(value), {"JSONDecodeError", "TypeError"}, PyNone)

\* try: return json.loads(value) except ...: return <default>.
JsonOrDefault(value, default) ==
    ExceptReturn(json_loads(value), {"JSONDecodeError", "TypeError"}, default)

\* The items of a dict.
HasItem(v, key) == \E i \in 1..Len(v.f) : v.f[i][1] = key
Item(v, key) == v.f[CHOOSE i \in 1..Len(v.f) : v.f[i][1] = key][2]

\* The declared fields of the pydantic model a type hint names; the hint
\* "BaseModel" stands for a subclass of BaseModel with an int and a str
\* field.
ModelFields(type_hint) ==
    << [name |-> "n", type |-> "int"], [name |-> "s", type |-> "str"] >>

\* str() of a pydantic model: name=repr(value) of each field.
RECURSIVE ModelText(_)
ModelText(f) ==
    IF f = << >> THEN << >>
    ELSE << f[1][1], "=" >> \o ReprText(f[1][2])
         \o (IF Len(f) > 1 THEN << " " >> ELSE << >>) \o ModelText(Tail(f))

\* The instance of the model with the given field values.
Record(type_hint, values) ==
    LET fields == ModelFields(type_hint)
        f == [i \in 1..Len(fields) |-> << fields[i].name, values[i] >>]
    IN  PyModel(ModelText(f), f)

\* pydantic's validation of a decoded value for a field of a declared type:
\* an int field takes an int, a bool, a float without fraction and a text
\* int() reads; a str field takes a str.
ValidateField(v, type) ==
    CASE type = "int" ->
            (CASE v.t \in {"int", "bool"} -> PyInt(v.n)
               [] v.t = "float" /\ v.d = 0 /\ v.s = << >> -> PyInt(v.n)
               [] v.t = "str" /\ int(v).t = "int" -> int(v)
               [] OTHER -> Raise("ValidationError"))
      [] type = "str" ->
            (IF v.t = "str" THEN v ELSE Raise("ValidationError"))

\* cls.model_validate(obj): obj must be a dict that holds every declared
\* field with a value its type takes; items that are not declared are
\* ignored.
model_validate(obj, type_hint) ==
    LET fields == ModelFields(type_hint)
        values == [i \in 1..Len(fields) |->
                     IF obj.t = "dict" /\ HasItem(obj, fields[i].name)
                     THEN ValidateField(Item(obj, fields[i].name),
                                        fields[i].type)
                     ELSE Raise("ValidationError")]
    IN  IF \E i \in 1..Len(fields) : values[i].t = "raise"
        THEN Raise("ValidationError")
        ELSE Record(type_hint, values)

\* type_hint.parse_raw(value): json.loads, then validation; a value that
\* is not JSON is a ValidationError too.
parse_raw(value, type_hint) ==
    IF json_loads(value).t = "raise" THEN Raise("ValidationError")
    ELSE model_validate(json_loads(value), type_hint)

\* A variant that gives {} when the text is not a record, as for a dict.
ParseModelEmptyDict(value, type_hint) ==
    ExceptReturn(parse_raw(value, type_hint),
                 {"ValueError", "TypeError", "ValidationError"}, PyDict(<< >>))

\* try: return type_hint.parse_raw(value) except Exception: return None.
ParseModel(value, type_hint) ==
    ExceptReturn(parse_raw(value, type_hint),
                 {"ValueError", "TypeError", "ValidationError"}, PyNone)

\* utils.parse_input_value, for every type hint when the value is None or
\* empty, and for every hint but datetime.date when it is not.  The hint
\* "list" stands for list, List and their parametrized forms, "dict"
\* likewise.
parse_input_value(value, type_hint) ==
    IF value = PyNone \/ value = PyStr(<< >>)
    THEN (IF type_hint = "bool" THEN PyBool(FALSE) ELSE PyNone)
    ELSE CASE type_hint = "str" -> str(value)
           [] type_hint = "int" ->
                 ExceptReturn(int(value), {"ValueError", "TypeError"}, PyInt(0))
           [] type_hint = "float" ->
                 ExceptReturn(float(value), {"ValueError", "TypeError"},
                              PyFloat(0, 0))
           [] type_hint = "bool" -> bool(value)
           [] type_hint = "list" -> JsonOrDefault(value, PyList(<< >>))
           [] type_hint = "dict" -> JsonOrDefault(value, PyDict(<< >>))
           [] type_hint = "BaseModel" -> ParseModel(value, type_hint)
           [] type_hint \notin {"str", "int", "float", "bool", "date", "list",
                                "dict", "BaseModel"} ->
                 IF IsClass(type_hint) THEN value ELSE Raise("TypeError")

\* value.json(indent=2) of a pydantic model.
model_json(value) == json_dumps(PyDict(value.f))

\* value.model_dump_json(indent=2) of a pydantic model.
model_dump_json(value) == json_dumps(PyDict(value.f))

\* The exceptions of the model; "except Exception" catches them all.
Exceptions == {"ValueError", "TypeError", "AttributeError", "JSONDecodeError",
               "ValidationError"}

\* The bodies of the two try statements of format_output_value.
try_json(value, type_hint) ==
    IF value.t \in {"dict", "list"} \/ type_hint \in {"dict", "list"}
    THEN json_dumps(value)
    ELSE IF value.t = "model" THEN model_json(value)
    ELSE json_dumps(value)

\* A variant that shows nothing as the empty text, whatever the type.
FormatNoneAlwaysEmpty(type_hint) == PyStr(<< >>)

\* return "" if type_hint is str else None.
FormatNone(type_hint) == IF type_hint = "str" THEN PyStr(<< >>) ELSE PyNone

\* A variant that writes a scalar as JSON.
FormatScalarJson(value) == json_dumps(value)

\* return str(value), for the hints str, int, float and bool.
FormatScalar(value) == str(value)

\* utils.format_output_value.
format_output_value(value, type_hint) ==
    IF value = PyNone THEN FormatNone(type_hint)
    ELSE IF type_hint \in {"str", "int", "float", "bool"}
    THEN FormatScalar(value)
    ELSE IF type_hint = "HttpUrl" THEN str(value)
    ELSE IF ~HasName(type_hint) THEN Raise("AttributeError")
    ELSE IF type_hint = "DataFrame"
    THEN (IF value.t = "frame" THEN PyList(value.f) ELSE PyList(<< >>))
    ELSE IF type_hint = "Figure" THEN value
    ELSE ExceptReturn(try_json(value, type_hint), Exceptions, str(value))

\* A workflow, as the introspection reads it: the fields of its start event
\* class (model_fields: name and annotation, in declaration order), whether
\* its stop event class is StopEvent itself, and the fields of that class.
Workflow(start_fields, is_stop_event, stop_fields) ==
    [start_fields |-> start_fields, is_stop_event |-> is_stop_event,
     stop_fields |-> stop_fields]

\* The loop of both functions: name -> str for Any, the annotation otherwise.
FieldTypes(model_fields) ==
    [i \in 1..Len(model_fields) |->
        [name |-> model_fields[i].name,
         type |-> IF model_fields[i].annotation = "Any" THEN "str"
                  ELSE model_fields[i].annotation]]

\* utils.get_workflow_inputs.
get_workflow_inputs(workflow) == FieldTypes(workflow.start_fields)

\* A variant without the test for the default stop event.
get_workflow_outputs_declared(workflow) == FieldTypes(workflow.stop_fields)

\* utils.get_workflow_outputs.
get_workflow_outputs(workflow) ==
    IF workflow.is_stop_event THEN << [name |-> "result", type |-> "str"] >>
    ELSE FieldTypes(workflow.stop_fields)

\* The tuple (component, property_name) of the two widget mappers: the
\* component's class, the properties it is given, and the property that
\* carries the value.
Component(class, props, property_name) ==
    PyObj(<< class >>,
          props \o << << "property_name", PyStr(<< property_name >>) >> >>)

ReadOnlyTextarea ==
    Component("Textarea", << << "readOnly", PyBool(TRUE) >> >>, "value")
TextInput(id) ==
    Component("Input", << << "id", PyStr(<< id >>) >>,
                          << "type", PyStr(<< "text" >>) >> >>, "value")
NumberInput(id, step) ==
    Component("Input", << << "id", PyStr(<< id >>) >>,
                          << "type", PyStr(<< "number" >>) >> >> \o step,
              "value")

\* components.get_output_component.
get_output_component(type_hint) ==
    IF type_hint = "str" THEN ReadOnlyTextarea
    ELSE IF type_hint \in {"int", "float"} THEN NumberInput("output", << >>)
    ELSE IF type_hint = "bool" THEN TextInput("output")
    ELSE IF ~HasName(type_hint) THEN Raise("AttributeError")
    ELSE IF type_hint = "HttpUrl" THEN Component("Img", << >>, "src")
    ELSE IF type_hint \in {"list", "dict"} THEN ReadOnlyTextarea
    ELSE IF type_hint = "DataFrame"
    THEN Component("DataTable", << << "page_size", PyInt(10) >> >>, "data")
    ELSE IF type_hint = "Figure" THEN Component("Graph", << >>, "figure")
    ELSE ReadOnlyTextarea

\* components.get_input_component.
get_input_component(type_hint) ==
    IF type_hint = "str" THEN TextInput("input")
    ELSE IF type_hint = "int"
    THEN NumberInput("input", << << "step", PyInt(1) >> >>)
    ELSE IF type_hint = "float"
    THEN NumberInput("input", << << "step", PyFloat(1, 1) >> >>)
    ELSE IF type_hint = "bool" THEN Component("Checkbox", << >>, "value")
    ELSE IF type_hint = "date" THEN Component("DatePickerSingle", << >>, "date")
    ELSE IF type_hint = "list"
    THEN Component("Textarea", << << "rows", PyInt(3) >> >>, "value")
    ELSE IF type_hint = "dict"
    THEN Component("Textarea", << << "rows", PyInt(4) >> >>, "value")
    ELSE IF ~IsClass(type_hint) THEN Raise("TypeError")
    ELSE IF type_hint = "BaseModel"
    THEN Component("Textarea", << << "rows", PyInt(4) >> >>, "value")
    ELSE TextInput("input")

\* A variant that keeps the parsed values that are truthy.
RunParamsForTruthy(inputs, values) ==
    LET parsed == [i \in 1..Len(inputs) |->
                      << inputs[i].name,
                         parse_input_value(values[i], inputs[i].type) >>]
    IN  PyDict(SelectSeq(parsed, LAMBDA p : Truthy(p[2])))

\* run_params over a schema: the (name, parsed value) items of the inputs
\* whose parsed value is not None, in the order of the schema; an exception
\* of parse_input_value propagates.
RunParamsFor(inputs, values) ==
    LET parsed == [i \in 1..Len(inputs) |->
                      << inputs[i].name,
                         parse_input_value(values[i], inputs[i].type) >>]
    IN  IF \E i \in 1..Len(inputs) : parsed[i][2].t = "raise"
        THEN parsed[CHOOSE i \in 1..Len(inputs) :
                        /\ parsed[i][2].t = "raise"
                        /\ \A j \in 1..(i - 1) : parsed[j][2].t # "raise"][2]
        ELSE PyDict(SelectSeq(parsed, LAMBDA p : p[2] # PyNone))

\* run_params of the controller's workflow.
RunParams(values) == RunParamsFor(Inputs, values).f

\* query_data of the button-run branch: only truthy raw values are parsed.
QueryData(values) ==
    LET parsed == [i \in 1..Len(Inputs) |->
                      << Inputs[i].name, values[i],
                         parse_input_value(values[i], Inputs[i].type) >>]
        kept == SelectSeq(parsed, LAMBDA p : Truthy(p[2]) /\ p[3] # PyNone)
    IN  [i \in 1..Len(kept) |-> << kept[i][1], kept[i][3] >>]

\* json.dumps(value, indent=2): as json_dumps, but a value json does not
\* know is an error.
RECURSIVE JsonNative(_)
JsonNative(v) ==
    /\ v.t \in {"none", "str", "int", "float", "bool", "dict", "list"}
    /\ \A i \in 1..Len(v.f) : JsonNative(v.f[i][2])

json_dumps_plain(value) ==
    IF JsonKeysOk(value) /\ JsonNative(value) THEN PyStr(JsonText(value))
    ELSE Raise("TypeError")

\* The text of the user's chat card: the single value, or the JSON of all.
QueryText(query_data) ==
    IF Len(query_data) = 1
    THEN str(query_data[1][2])
    ELSE json_dumps_plain(PyDict(query_data))

UserCard(body) == [role |-> "user", body |-> body]
ResponseCard(body) == [role |-> "response", body |-> body]

----------------------------------------------------------------------------
\* The page and the controller after construction.
ControllerInit ==
    /\ self_ctx = 0
    /\ store = EmptyEventsData
    /\ chat = << >>
    /\ is_open = FALSE
    /\ disabled = FALSE
    /\ input_widgets = [i \in 1..Len(Inputs) |-> PyNone]
    /\ modal_input = PyNone
    /\ output_widgets = [i \in 1..Len(Outputs) |-> PyNone]
    /\ pc = "idle"
    /\ cb = NoCb
    /\ handler = NoHandler
    /\ engine = [nctx |-> 0, emitted |-> 0, calls |-> 0]
    /\ obs = [last_event |-> "none", run_calls |-> 0, new_ctxs |-> 0,
              pauses |-> 0, resumes |-> 0, paused_ctx |-> 0,
              ctx_arg |-> 0, sent_to |-> 0, sent |-> PyNone,
              params |-> << >>, prompt |-> PyNone,
              pushes |-> 0, last_push |-> NoPush,
              emitted |-> << >>, base |-> EmptyEventsData,
              prevented |-> 0]
    /\ modal_prompt = DefaultPrompt

Init ==
    /\ ControllerInit
    /\ call = NoCall

----------------------------------------------------------------------------
\* The start of an invocation: from the trigger to the first await.

\* A variant that starts every invocation, resumes too, from an empty log.
EventsAtTriggerAlwaysEmpty(triggered_id, data) == EmptyEventsData

\* The events data the invocation works on: a run trigger starts from an
\* empty log, a modal submit from what the store holds.
EventsAtTrigger(triggered_id, data) ==
    IF triggered_id = "button-run" THEN EmptyEventsData ELSE data

\* A variant that clears self._ctx on every trigger, modal submits too.
CtxAtTriggerAlwaysCleared(triggered_id, ctx) == 0

\* A variant without "self._ctx = None": the run trigger keeps the context.
CtxAtTriggerKept(triggered_id, ctx) == ctx

\* self._ctx as run_stream_events finds it: a run trigger has cleared it.
CtxAtTrigger(triggered_id, ctx) ==
    IF triggered_id = "button-run" THEN 0 ELSE ctx

\* chat_messages after the trigger's branch.
ChatAtTrigger(triggered_id, messages, values, modal_input_value) ==
    IF triggered_id = "button-run"
    THEN (IF QueryData(values) # << >>
          THEN Append(messages, UserCard(QueryText(QueryData(values))))
          ELSE messages)
    ELSE (IF Truthy(modal_input_value)
          THEN Append(messages, UserCard(modal_input_value))
          ELSE messages)

\* A variant that never passes ctx: every call runs on a fresh context.
HandlerCtxAlwaysFresh(ctx, nctx) == nctx + 1

\* workflow.run(**run_params): the context of the handler it returns is the
\* one passed as ctx, or a fresh one.
HandlerCtx(ctx, nctx) == IF ctx # 0 THEN ctx ELSE nctx + 1

\* Whether a HumanResponseEvent is sent into the handler's context.
SendsResponse(modal_input_value) == Truthy(modal_input_value)

StartInvocation(triggered_id) ==
    LET ctx0 == CtxAtTrigger(triggered_id, self_ctx)
        data == EventsAtTrigger(triggered_id, store)
        hctx == HandlerCtx(ctx0, engine.nctx)
        fresh == IF hctx > engine.nctx THEN 1 ELSE 0
        sends == SendsResponse(modal_input)
        isrun == triggered_id = "button-run"
    IN  /\ pc = "idle"
        /\ engine.calls < MaxCalls
        /\ pc' = "stream"
        /\ disabled' = TRUE
        /\ cb' = [triggered_id |-> triggered_id,
                  modal_input_value |-> modal_input,
                  chat_messages |->
                      ChatAtTrigger(triggered_id, chat, input_widgets, modal_input),
                  events_data |-> data,
                  event_count |-> data.count,
                  result |-> PyNone]
        /\ handler' = [ctx |-> hctx, queue |-> << >>, done |-> FALSE]
        /\ self_ctx' = hctx
        /\ engine' = [engine EXCEPT !.nctx = @ + fresh, !.calls = @ + 1]
        /\ obs' = [last_event |-> IF isrun THEN "none" ELSE obs.last_event,
                   run_calls |-> IF isrun THEN 1 ELSE obs.run_calls + 1,
                   new_ctxs |-> IF isrun THEN fresh ELSE obs.new_ctxs + fresh,
                   pauses |-> IF isrun THEN 0 ELSE obs.pauses,
                   resumes |-> IF isrun THEN 0 ELSE obs.resumes + 1,
                   paused_ctx |-> IF isrun THEN 0 ELSE obs.paused_ctx,
                   ctx_arg |-> ctx0,
                   sent_to |-> IF sends THEN hctx ELSE 0,
                   sent |-> IF sends THEN modal_input ELSE PyNone,
                   params |-> RunParams(input_widgets),
                   prompt |-> IF isrun THEN PyNone ELSE obs.prompt,
                   pushes |-> 0, last_push |-> NoPush,
                   emitted |-> << >>, base |-> data,
                   prevented |-> obs.prevented]
        /\ UNCHANGED << store, ui, call >>

\* The user clicks "Run Workflow": the button is enabled.
RunTrigger ==
    /\ ~disabled
    /\ StartInvocation("button-run")

\* The user clicks "Submit" in the modal: the modal is open.
ModalSubmit ==
    /\ is_open
    /\ StartInvocation("modal-submit")

\* A variant without the test of triggered_id.
IsTriggeredAlways(triggered_id) == TRUE

\* "if not triggered_id": dash.callback_context names no trigger.
IsTriggered(triggered_id) == triggered_id # "None"

\* raise PreventUpdate: Dash applies no output of the callback.
PreventUpdate ==
    /\ obs' = [obs EXCEPT !.prevented = @ + 1]
    /\ UNCHANGED << self_ctx, store, ui, disabled, pc, cb, handler, engine,
                    call >>

\* Dash invokes the callback although neither button was clicked.
NoTrigger ==
    /\ pc = "idle"
    /\ obs.prevented < MaxCalls
    /\ IF IsTriggered("None") THEN StartInvocation("None") ELSE PreventUpdate

----------------------------------------------------------------------------
\* The engine writes an event to the stream of the running handler.

NextEventId == engine.emitted + 1

EngineEmits(e, terminal) ==
    /\ pc = "stream"
    /\ ~handler.done
    /\ Len(handler.queue) < MaxQueue
    /\ handler' = [handler EXCEPT !.queue = Append(@, e),
                                  !.done = (e.kind = "Stop")]
    /\ engine' = [engine EXCEPT !.emitted = IF terminal THEN @ ELSE @ + 1]
    /\ obs' = [obs EXCEPT !.emitted = Append(@, e)]
    /\ UNCHANGED << self_ctx, store, ui, disabled, pc, cb, call >>

EmitEvent ==
    /\ engine.emitted < MaxEvents
    /\ \E k \in EventKinds :
          EngineEmits([kind |-> k, id |-> NextEventId, arg |-> EventData],
                      FALSE)

\* An event whose data cannot be serialized (SpecEvents only).
EmitUnserializable ==
    /\ engine.emitted < MaxEvents
    /\ \E d \in UnserializableData :
          EngineEmits([kind |-> "Custom", id |-> NextEventId, arg |-> d],
                      FALSE)

EmitInputRequired ==
    \E p \in Prompts :
        EngineEmits([kind |-> "InputRequired", id |-> 0, arg |-> p], TRUE)

EmitStop ==
    \E r \in Results :
        EngineEmits([kind |-> "Stop", id |-> 0, arg |-> r], TRUE)

----------------------------------------------------------------------------
\* The event loop of run_stream_events: one event is taken and handled.

\* The text put in place of the data of an event whose model_dump raises.
Placeholder(e) ==
    PyStr(<< "Error serializing event: ", e.arg.s[1], "\nEvent: ", e.kind >>)

\* A variant without the try statements: the exception is the outcome.
EventJsonUncaught(e) ==
    IF e.arg.t = "raise" THEN e.arg ELSE json_dumps(e.arg)

\* event_json: the JSON text of the event's data, str(event_data) when
\* json.dumps raises, the placeholder when model_dump raises.
EventJson(e) ==
    IF e.arg.t = "raise" THEN Placeholder(e)
    ELSE ExceptReturn(json_dumps(e.arg), Exceptions, str(e.arg))

\* The card built for an event.
EventCard(e) == [kind |-> e.kind, id |-> e.id, json |-> EventJson(e)]

\* A variant that puts the newest card first.
AddCardFirst(events_list, card) == << card >> \o events_list

\* events_list after the card is added.
AddCard(events_list, card) == Append(events_list, card)

\* The data handed to set_props("events-data", ...).
UpdatedEventsData(events_list, event_count) ==
    [events |-> events_list, count |-> event_count]

\* A variant in which an Error event ends the stream.
PcAfterEventErrorEnds(e) == IF e.kind = "Error" THEN "return" ELSE "stream"

\* Where the invocation is after the loop body has handled an event that is
\* neither a StopEvent nor an InputRequiredEvent: at the next iteration.
PcAfterEvent(e) == "stream"

\* A variant without the two isinstance tests: every event gets a card.
IsLoggedAlways(e) == TRUE

\* Whether the loop body reaches the card for an event: a StopEvent is
\* skipped by "continue", an InputRequiredEvent returns before it.
IsLogged(e) == e.kind \notin {"Stop", "InputRequired"}

ConsumeEvent ==
    /\ pc = "stream"
    /\ handler.queue # << >>
    /\ LET e == Head(handler.queue)
           events_list == AddCard(cb.events_data.events, EventCard(e))
           pushed == UpdatedEventsData(events_list, cb.event_count + 1)
       IN  /\ IsLogged(e)
           /\ cb' = [cb EXCEPT !.event_count = @ + 1,
                               !.events_data.events = events_list]
           /\ store' = pushed
           /\ handler' = [handler EXCEPT !.queue = Tail(@)]
           /\ obs' = [obs EXCEPT !.last_event = e.kind,
                                 !.pushes = @ + 1,
                                 !.last_push = pushed]
           /\ pc' = PcAfterEvent(e)
    /\ UNCHANGED << self_ctx, ui, disabled, engine, call >>

\* StopEvent: skipped by the loop, the stream ends, the handler's result is
\* awaited and returned.
ConsumeStop ==
    /\ pc = "stream"
    /\ handler.queue # << >>
    /\ Head(handler.queue).kind = "Stop"
    /\ pc' = "return"
    /\ cb' = [cb EXCEPT !.result = Head(handler.queue).arg]
    /\ handler' = NoHandler
    /\ obs' = [obs EXCEPT !.last_event = "Stop", !.emitted = << >>]
    /\ UNCHANGED << self_ctx, store, ui, disabled, engine, call >>

\* InputRequiredEvent: run_stream_events returns None, the event loop of
\* asyncio.run is closed and the handler with what its stream still holds
\* is dropped.
ConsumeInputRequired ==
    /\ pc = "stream"
    /\ handler.queue # << >>
    /\ Head(handler.queue).kind = "InputRequired"
    /\ pc' = "return"
    /\ cb' = [cb EXCEPT !.result = PyNone]
    /\ obs' = [obs EXCEPT !.last_event = "InputRequired",
                          !.pauses = @ + 1,
                          !.paused_ctx = handler.ctx,
                          !.prompt = Head(handler.queue).arg,
                          !.emitted = << >>]
    /\ handler' = NoHandler
    /\ UNCHANGED << self_ctx, store, ui, disabled, engine, call >>

----------------------------------------------------------------------------
\* The rest of _run_workflow: the values it returns, applied to the page.

\* Attributes and items of a value.
HasField(v, name) == \E i \in 1..Len(v.f) : v.f[i][1] = name
Field(v, name) == v.f[CHOOSE i \in 1..Len(v.f) : v.f[i][1] = name][2]
hasattr(v, name) == v.t \in {"obj", "model"} /\ HasField(v, name)

\* The value of a declared output, as Viz looks it up on the result.
ExtractOutput(result, output_name) ==
    IF hasattr(result, output_name) THEN Field(result, output_name)
    ELSE IF result.t = "dict" /\ HasField(result, output_name)
    THEN Field(result, output_name)
    ELSE PyNone

\* The same lookup in DashBackend.
DashExtractOutput(result, output_name) ==
    IF hasattr(result, output_name) THEN Field(result, output_name)
    ELSE IF result.t = "dict" /\ HasField(result, output_name)
    THEN Field(result, output_name)
    ELSE result

IsSimpleResult(outputs) == Len(outputs) = 1 /\ outputs[1].name = "result"

\* The formatted output values Viz computes for a result that is not None,
\* one per declared output; a "raise" among them is an exception that
\* leaves format_output_value and ends the callback.
FormattedOutputs(outputs, result) ==
    IF IsSimpleResult(outputs)
    THEN << format_output_value(result, outputs[1].type) >>
    ELSE [i \in 1..Len(outputs) |->
             format_output_value(ExtractOutput(result, outputs[i].name),
                                 outputs[i].type)]

\* The formatted output values DashBackend computes for a result.
DashFormattedOutputs(outputs, result) ==
    IF IsSimpleResult(outputs)
    THEN << format_output_value(result, outputs[1].type) >>
    ELSE [i \in 1..Len(outputs) |->
             format_output_value(DashExtractOutput(result, outputs[i].name),
                                 outputs[i].type)]

\* The output widgets' values: set only when there is a result.
OutputValues(result, current) ==
    IF result # PyNone THEN FormattedOutputs(Outputs, result) ELSE current

\* has_response, for the single "result" output.
HasResponse(result) == result # PyNone /\ Truthy(result)

\* A variant that returns only the cards of this invocation's result.
ChatAtReturnOnlyNew(messages, result) ==
    IF result # PyNone /\ Truthy(result)
    THEN << ResponseCard(result) >>
    ELSE << >>

\* chat_messages as returned.
ChatAtReturn(messages, result) ==
    IF HasResponse(result)
    THEN Append(messages,
                ResponseCard(format_output_value(result, Outputs[1].type)))
    ELSE messages

\* The modal flag: the workflow "didn't finish" when the result is None.
ModalAtReturn(result) == result = PyNone

\* The events data as returned: the dictionary the invocation started with,
\* whose list has grown and whose count has not.
EventsAtReturn(events_data) == events_data

\* The outputs the callback is registered with, in order: one per input
\* widget (cleared after submission), one per declared output, the modal,
\* the chat and the events store.
CallbackOutputs ==
    [i \in 1..Len(Inputs) |-> << "input", Inputs[i].name >>]
    \o [i \in 1..Len(Outputs) |-> << "output", Outputs[i].name >>]
    \o << << "input-modal", "is_open" >>,
          << "chat-messages", "children" >>,
          << "events-data", "data" >> >>

\* What each value of the list output_values is meant for, in the order
\* the values are appended: the formatted outputs are appended only when
\* there is a result.
output_values(result) ==
    [i \in 1..Len(Inputs) |-> << "input", Inputs[i].name >>]
    \o (IF result # PyNone
        THEN [i \in 1..Len(Outputs) |-> << "output", Outputs[i].name >>]
        ELSE << >>)
    \o << << "input-modal", "is_open" >>,
          << "chat-messages", "children" >>,
          << "events-data", "data" >> >>

\* A variant that returns the widgets' own values for the input widgets.
InputsAtReturnKept(values) == values

\* The values returned for the input widgets: None for each of them.
InputsAtReturn(values) == [i \in 1..Len(Inputs) |-> PyNone]

Return ==
    /\ pc = "return"
    /\ input_widgets' = InputsAtReturn(input_widgets)
    /\ output_widgets' = OutputValues(cb.result, output_widgets)
    /\ is_open' = ModalAtReturn(cb.result)
    /\ chat' = ChatAtReturn(cb.chat_messages, cb.result)
    /\ store' = EventsAtReturn(cb.events_data)
    /\ disabled' = FALSE
    /\ pc' = "idle"
    /\ cb' = NoCb
    /\ obs' = [obs EXCEPT !.pushes = 0, !.last_push = NoPush,
                          !.base = EmptyEventsData, !.params = << >>]
    /\ UNCHANGED << self_ctx, modal_input, handler, engine, modal_prompt, call >>

----------------------------------------------------------------------------
\* The other callbacks and the user's edits.

\* clear_events: the "Clear" button empties the events store.
ClearEvents ==
    /\ store # EmptyEventsData
    /\ store' = EmptyEventsData
    /\ UNCHANGED << self_ctx, ui, disabled, pc, cb, handler, engine, obs, call >>

\* The user edits an input widget.  The values are read when a trigger
\* arrives and overwritten by the return, so edits made in between are not
\* told apart.
TypeInput ==
    /\ pc = "idle"
    /\ \E i \in 1..Len(Inputs), v \in RawInputs :
          /\ input_widgets[i] # v
          /\ input_widgets' = [input_widgets EXCEPT ![i] = v]
    /\ UNCHANGED << self_ctx, store, chat, is_open, modal_input, output_widgets,
                    disabled, pc, cb, handler, engine, obs, modal_prompt, call >>

\* The user edits the modal's text area, which is there while the modal is open.
TypeModal ==
    /\ pc = "idle"
    /\ is_open
    /\ \E t \in ModalTexts :
          /\ modal_input # t
          /\ modal_input' = t
    /\ UNCHANGED << self_ctx, store, chat, is_open, input_widgets,
                    output_widgets, disabled, pc, cb, handler, engine, obs,
                    modal_prompt, call >>

Next ==
    \/ RunTrigger
    \/ ModalSubmit
    \/ EmitEvent
    \/ EmitInputRequired
    \/ EmitStop
    \/ ConsumeEvent
    \/ ConsumeStop
    \/ ConsumeInputRequired
    \/ Return
    \/ ClearEvents
    \/ TypeInput
    \/ TypeModal

Spec == Init /\ [][Next]_vars

----------------------------------------------------------------------------
\* SpecFn: the pure functions, applied to arguments drawn from bounded sets.

controller == << self_ctx, store, chat, is_open, disabled, input_widgets,
                 modal_input, output_widgets, pc, cb, handler, engine, obs,
                 modal_prompt >>

\* The texts a text or number widget can hold.
Chars == {"0", "1", "-", ".", " ", "x"}
Texts == UNION {[1..n -> Chars] : n \in 0..MaxText}

\* Raw widget values: nothing, a text, a number, a checkbox state.
ParseValues ==
    {PyNone} \cup {PyStr(s) : s \in Texts}
    \cup {PyInt(0), PyInt(-12), PyFloat(15, 1), PyFloat(-15, 1)}
    \cup {PyBool(TRUE), PyBool(FALSE)}

\* Type hints of input fields; the non-empty values of "date" are not
\* applied.
ParseHints == {"str", "int", "float", "bool", "bytes", "int | None",
               "date", "list", "dict", "BaseModel"}

IsEmptyValue(value) == value = PyNone \/ value = PyStr(<< >>)

Parsable(value, type_hint) ==
    IsEmptyValue(value)
    \/ type_hint # "date"

ParseCalls ==
    {c \in {[fn |-> "parse_input_value", value |-> value,
             type_hint |-> type_hint, done |-> FALSE, ret |-> PyNone] :
               value \in ParseValues, type_hint \in ParseHints} :
        Parsable(c.value, c.type_hint)}

\* What a user can write into the text area of a list or dict field: every
\* text of these characters up to the bound, and some longer ones.
JsonChars == {"[", "]", "{", "}", "\"", ",", "1", "0", "-", " "}
JsonTexts == UNION {[1..n -> JsonChars] : n \in 0..MaxText}
JsonSamples ==
    { << "{", "\"", "a", "\"", ":", "1", "}" >>,
      << "n", "o", "t", " ", "j", "s", "o", "n" >>,
      << "[", "1", ",", " ", "2", "]" >>,
      << "{", "\"", "a", "\"", ":", " ", "[", "1", ",", " ", "n", "u", "l",
         "l", "]", "}" >>,
      << "[", "1", ",", "]" >>,
      << "{", "\"", "a", "\"", ":", "1", ",", "}" >>,
      << "{", "a", ":", "1", "}" >>,
      << "\"", "a", "\\", "\"", "b", "\"" >>,
      << "[", "t", "r", "u", "e", ",", "1", ".", "5", "]" >>,
      << "5" >> }

JsonCalls ==
    {[fn |-> "parse_input_value", value |-> PyStr(text),
      type_hint |-> type_hint, done |-> FALSE, ret |-> PyNone] :
        text \in (JsonTexts \cup JsonSamples) \ {<< >>},
        type_hint \in {"list", "dict", "BaseModel"}}

\* Records of the model class, and texts that are not records of it: a
\* field is missing, a value is of another type, the text is a list.
Records ==
    {Record("BaseModel", << n, s >>) :
        n \in {PyInt(0), PyInt(1), PyInt(-12)},
        s \in {PyStr(<< >>), PyStr(<< "a" >>), PyStr(<< "1" >>),
               PyStr(<< "\"" >>), PyStr(<< "{", "}" >>)}}
NotRecords ==
    { << "{", "\"", "n", "\"", ":", "1", "}" >>,
      << "{", "\"", "s", "\"", ":", "\"", "a", "\"", "}" >>,
      << "{", "\"", "n", "\"", ":", "\"", "x", "\"", ",",
         "\"", "s", "\"", ":", "\"", "a", "\"", "}" >>,
      << "{", "\"", "n", "\"", ":", "n", "u", "l", "l", ",",
         "\"", "s", "\"", ":", "\"", "a", "\"", "}" >>,
      << "[", "1", ",", "\"", "a", "\"", "]" >>,
      << "{", "\"", "n", "\"", ":", "1", ",",
         "\"", "s", "\"", ":", "\"", "a", "\"" >>,
      << "n", "=", "1", " ", "s", "=", "'", "a", "'" >> }

\* Texts whose values validation converts or rejects: a text for the int
\* field, a number for the str field, a fraction for the int field, an item
\* that is not declared.
LooseRecords ==
    { << "{", "\"", "n", "\"", ":", "\"", "1", "\"", ",",
         "\"", "s", "\"", ":", "\"", "a", "\"", "}" >>,
      << "{", "\"", "n", "\"", ":", "1", ",",
         "\"", "s", "\"", ":", "2", "}" >>,
      << "{", "\"", "n", "\"", ":", "1", ".", "5", ",",
         "\"", "s", "\"", ":", "\"", "a", "\"", "}" >>,
      << "{", "\"", "n", "\"", ":", "1", ",",
         "\"", "s", "\"", ":", "\"", "a", "\"", ",",
         "\"", "x", "\"", ":", "0", "}" >> }

RecordCalls ==
    {[fn |-> "parse_input_value", value |-> value,
      type_hint |-> "BaseModel", done |-> FALSE, ret |-> PyNone] :
        value \in {model_dump_json(r) : r \in Records}
                  \cup {str(r) : r \in Records}
                  \cup {PyStr(text) : text \in NotRecords \cup LooseRecords}}

ApplyParse ==
    /\ call.fn = "parse_input_value" /\ ~call.done
    /\ call' = [call EXCEPT
                   !.done = TRUE,
                   !.ret = parse_input_value(call.value, call.type_hint)]
    /\ UNCHANGED controller

\* Type hints of output fields and values a workflow can return for them.
FormatHints == {"str", "int", "float", "bool", "HttpUrl", "DataFrame",
                "Figure", "list", "dict", "BaseModel", "date", "int | None"}
FormatValues ==
    { PyNone, PyStr(<< >>), PyStr(<< "o", "k" >>), PyInt(0), PyInt(25),
      PyFloat(15, 1), PyBool(TRUE), PyBool(FALSE),
      PyList(<< << "", PyInt(1) >>, << "", PyStr(<< "a" >>) >> >>),
      PyDict(<< << "k", PyBool(TRUE) >> >>),
      PyDict(<< << TupleKey, PyInt(1) >> >>),
      PyObj(<< "Figure()" >>, << >>),
      PyFrame(<< "DataFrame" >>, << << "", PyDict(<< << "c", PyInt(1) >> >>) >> >>),
      Record("BaseModel", << PyInt(1), PyStr(<< "a" >>) >>) }

FormatCalls ==
    {[fn |-> "format_output_value", value |-> value, type_hint |-> type_hint,
      done |-> FALSE, ret |-> PyNone] :
        value \in FormatValues, type_hint \in FormatHints}

ApplyFormat ==
    /\ call.fn = "format_output_value" /\ ~call.done
    /\ call' = [call EXCEPT
                   !.done = TRUE,
                   !.ret = format_output_value(call.value, call.type_hint)]
    /\ UNCHANGED controller

\* Type hints of declared fields: those the mappers have a case for, a
\* class they have none for, and a union, which is not a class.
WidgetHints == FormatHints \cup {"bytes"}

WidgetCalls ==
    {[fn |-> fn, type_hint |-> type_hint, done |-> FALSE, ret |-> PyNone] :
        fn \in {"get_input_component", "get_output_component"},
        type_hint \in WidgetHints}

ApplyInputWidget ==
    /\ call.fn = "get_input_component" /\ ~call.done
    /\ call' = [call EXCEPT !.done = TRUE,
                            !.ret = get_input_component(call.type_hint)]
    /\ UNCHANGED controller

ApplyOutputWidget ==
    /\ call.fn = "get_output_component" /\ ~call.done
    /\ call' = [call EXCEPT !.done = TRUE,
                            !.ret = get_output_component(call.type_hint)]
    /\ UNCHANGED controller

\* Workflows: event classes of up to two fields with distinct names.
Annotations == {"str", "int", "Any"}
FieldLists ==
    {<< >>}
    \cup {<< [name |-> x, annotation |-> a] >> :
             x \in {"a", "b"}, a \in Annotations}
    \cup {fields \in
               {<< [name |-> x, annotation |-> a],
                   [name |-> y, annotation |-> b] >> :
                   x \in {"a", "b"}, y \in {"a", "b"},
                   a \in Annotations, b \in Annotations} :
             fields[1].name # fields[2].name}
Workflows ==
    {Workflow(start_fields, TRUE, << >>) : start_fields \in FieldLists}
    \cup {Workflow(start_fields, FALSE, stop_fields) :
             start_fields \in FieldLists, stop_fields \in FieldLists}

IntrospectCalls ==
    {[fn |-> fn, workflow |-> workflow, done |-> FALSE, ret |-> << >>] :
        fn \in {"get_workflow_inputs", "get_workflow_outputs"},
        workflow \in Workflows}

ApplyInputs ==
    /\ call.fn = "get_workflow_inputs" /\ ~call.done
    /\ call' = [call EXCEPT !.done = TRUE,
                            !.ret = get_workflow_inputs(call.workflow)]
    /\ UNCHANGED controller

ApplyOutputFields ==
    /\ call.fn = "get_workflow_outputs" /\ ~call.done
    /\ call' = [call EXCEPT !.done = TRUE,
                            !.ret = get_workflow_outputs(call.workflow)]
    /\ UNCHANGED controller

\* Start-event schemas of two fields, and what their widgets hold.
SchemaHints == {"str", "int", "bool", "list"}
InputSchemas ==
    {<< [name |-> "a", type |-> t1], [name |-> "b", type |-> t2] >> :
        t1 \in SchemaHints, t2 \in SchemaHints}
WidgetValues ==
    {PyNone, PyStr(<< >>), PyStr(<< "1" >>), PyBool(TRUE), PyBool(FALSE)}

RunParamsCalls ==
    {c \in {[fn |-> "run_params", inputs |-> inputs, values |-> << v1, v2 >>,
             done |-> FALSE, ret |-> PyNone] :
               inputs \in InputSchemas,
               v1 \in WidgetValues, v2 \in WidgetValues} :
        \A i \in 1..Len(c.inputs) : Parsable(c.values[i], c.inputs[i].type)}

ApplyRunParams ==
    /\ call.fn = "run_params" /\ ~call.done
    /\ call' = [call EXCEPT
                   !.done = TRUE,
                   !.ret = RunParamsFor(call.inputs, call.values)]
    /\ UNCHANGED controller

\* Stop-event schemas and results.
OutputSchemas ==
    { << [name |-> "result", type |-> "str"] >>,
      << [name |-> "summary", type |-> "str"],
         [name |-> "chart", type |-> "Figure"] >>,
      << [name |-> "summary", type |-> "str"],
         [name |-> "data", type |-> "dict"] >>,
      << [name |-> "summary", type |-> "str"],
         [name |-> "score", type |-> "int | None"] >> }

Summary == << "summary", PyStr(<< "o", "k" >>) >>
Chart == << "chart", PyObj(<< "Figure()" >>, << >>) >>
Score == << "score", PyInt(7) >>
Data == << "data", PyDict(<< << "k", PyInt(1) >> >>) >>
TupleData == << "data", PyDict(<< << TupleKey, PyInt(1) >> >>) >>

StopResults ==
    { PyStr(<< "o", "k" >>),
      PyModel(<< "Stop(summary='ok')" >>, << Summary >>),
      PyModel(<< "Stop(summary='ok', chart=Figure())" >>, << Summary, Chart >>),
      PyModel(<< "Stop(summary='ok', score=7)" >>, << Summary, Score >>),
      PyModel(<< "Stop(summary='ok', data={'k': 1})" >>, << Summary, Data >>),
      PyModel(<< "Stop(summary='ok', data={(1, 2): 1})" >>,
              << Summary, TupleData >>),
      PyDict(<< Summary >>),
      PyDict(<< Summary, TupleData >>) }

OutputsCalls ==
    {[fn |-> fn, outputs |-> outputs, result |-> result,
      done |-> FALSE, ret |-> << >>] :
        fn \in {"Viz", "DashBackend"},
        outputs \in OutputSchemas, result \in StopResults}

ApplyOutputs ==
    /\ call.fn = "Viz" /\ ~call.done
    /\ call' = [call EXCEPT
                   !.done = TRUE,
                   !.ret = FormattedOutputs(call.outputs, call.result)]
    /\ UNCHANGED controller

ApplyDashOutputs ==
    /\ call.fn = "DashBackend" /\ ~call.done
    /\ call' = [call EXCEPT
                   !.done = TRUE,
                   !.ret = DashFormattedOutputs(call.outputs, call.result)]
    /\ UNCHANGED controller

NextFn ==
    \/ ApplyParse
    \/ ApplyFormat
    \/ ApplyInputWidget
    \/ ApplyOutputWidget
    \/ ApplyInputs
    \/ ApplyOutputFields
    \/ ApplyRunParams
    \/ ApplyOutputs
    \/ ApplyDashOutputs

InitFn ==
    /\ ControllerInit
    /\ \/ call \in ParseCalls
       \/ call \in JsonCalls
       \/ call \in RecordCalls
       \/ call \in FormatCalls
       \/ call \in WidgetCalls
       \/ call \in IntrospectCalls
       \/ call \in RunParamsCalls
       \/ call \in OutputsCalls

SpecFn == InitFn /\ [][NextFn]_vars

----------------------------------------------------------------------------
\* SpecEvents: the controller with events that cannot be serialized among
\* those the engine emits; the user clicks the two triggers and edits
\* nothing.

NextEvents ==
    \/ RunTrigger
    \/ ModalSubmit
    \/ EmitEvent
    \/ EmitUnserializable
    \/ EmitInputRequired
    \/ EmitStop
    \/ ConsumeEvent
    \/ ConsumeStop
    \/ ConsumeInputRequired
    \/ Return

SpecEvents == Init /\ [][NextEvents]_vars

----------------------------------------------------------------------------
\* SpecTriggers: the controller with the invocations Dash makes without a
\* trigger among the two real ones, for an engine that streams no event
\* before it pauses or stops; the user edits the widgets.

NextTriggers ==
    \/ RunTrigger
    \/ ModalSubmit
    \/ NoTrigger
    \/ EmitInputRequired
    \/ EmitStop
    \/ ConsumeStop
    \/ ConsumeInputRequired
    \/ Return
    \/ TypeInput
    \/ TypeModal

SpecTriggers == Init /\ [][NextTriggers]_vars

----------------------------------------------------------------------------
\* The controller's states, as the specification names them.

Running == pc # "idle"
AwaitingHumanInput == pc = "idle" /\ obs.last_event = "InputRequired"
Idle == pc = "idle" /\ obs.last_event # "InputRequired"

\* Steps of the two triggers, told by what they start.
RunTriggerStep ==
    pc = "idle" /\ pc' = "stream" /\ cb'.triggered_id = "button-run"
ModalSubmitStep ==
    pc = "idle" /\ pc' = "stream" /\ cb'.triggered_id = "modal-submit"
ClearStep ==
    store # EmptyEventsData /\ store' = EmptyEventsData /\ pc' = pc /\ cb' = cb

CardsOf(events) == [i \in 1..Len(events) |-> EventCard(events[i])]

----------------------------------------------------------------------------
\* C1: a run trigger that arrives while the controller is Running or
\* AwaitingHumanInput is a no-op: no execution is started, the stored
\* handle and the events store are unchanged, and the log the controller
\* works on is the log that was there.
C1_RunTriggerWhileBusyIsNoOp ==
    [][ (~Idle /\ RunTrigger) =>
            /\ engine'.calls = engine.calls
            /\ self_ctx' = self_ctx
            /\ store' = store
            /\ pc' = pc ]_vars

\* C3: the stored handle is set exactly when the most recent event of the
\* current run was InputRequired; read where no invocation is running, so
\* that it covers "None before any run and after a run has ended with Stop".
C3_HandleSetIffInputRequired ==
    pc = "idle" => ((self_ctx # 0) <=> (obs.last_event = "InputRequired"))

\* C4: after every handled trigger the modal is open exactly when the most
\* recent event of the current run was InputRequired; a run that ended with
\* Stop leaves it closed, whatever the result.
C4_ModalOpenIffInputRequired ==
    pc = "idle" => (is_open <=> (obs.last_event = "InputRequired"))

\* C5: a modal submit with non-empty text while AwaitingHumanInput sends the
\* human response into the context stored when the run paused, makes no new
\* context, and the events are then consumed from a handler on that context.
C5_ResumeUsesStoredContext ==
    [][ (AwaitingHumanInput /\ ModalSubmitStep /\ Truthy(modal_input)) =>
            /\ obs.paused_ctx # 0
            /\ self_ctx = obs.paused_ctx
            /\ obs'.ctx_arg = obs.paused_ctx
            /\ obs'.sent_to = obs.paused_ctx
            /\ obs'.sent = modal_input
            /\ handler'.ctx = obs.paused_ctx
            /\ engine'.nctx = engine.nctx ]_vars

\* C5 witness: a resume with the text "5" has just started its handler.
C5_Witness ==
    /\ pc = "stream"
    /\ cb.triggered_id = "modal-submit"
    /\ obs.last_event = "InputRequired"
    /\ obs.sent = PyStr(<< "5" >>)
    /\ obs.sent_to = handler.ctx
    /\ handler.ctx = obs.paused_ctx

\* C6 as stated: in a run that paused once and was resumed once,
\* workflow.run has been called exactly once.
C6_RunCalledOnce ==
    (pc = "idle" /\ obs.last_event = "Stop"
        /\ obs.pauses = 1 /\ obs.resumes = 1) => obs.run_calls = 1

\* C6 amended: in a run that paused once and was resumed once, workflow.run
\* has been called exactly twice, the second time with the stored context,
\* and a single execution context has been made.
C6_RunCalledTwiceOneContext ==
    (obs.pauses = 1 /\ obs.resumes = 1) =>
        /\ obs.run_calls = 2
        /\ obs.new_ctxs = 1
        /\ obs.ctx_arg = obs.paused_ctx
        /\ self_ctx = obs.paused_ctx

\* C6 witness: such a run has ended with Stop and its result is shown.
C6_Witness ==
    /\ pc = "idle"
    /\ obs.last_event = "Stop"
    /\ obs.pauses = 1 /\ obs.resumes = 1
    /\ obs.sent = PyStr(<< "5" >>)
    /\ output_widgets[1] = PyStr(<< "4" >>)
    /\ ~is_open

\* C7: a modal submit whose text is empty or None is ignored: no engine
\* call, nothing sent, and handle, events store, chat, modal and output
\* widgets unchanged.  Read at the submits made while AwaitingHumanInput,
\* the state the guard "modal input non-empty" belongs to.
C7_EmptySubmitIgnored ==
    [][ (AwaitingHumanInput /\ ModalSubmit /\ ~Truthy(modal_input)) =>
            /\ engine'.calls = engine.calls
            /\ pc' = pc
            /\ UNCHANGED << self_ctx, store, chat, is_open, output_widgets >>
      ]_vars

C9_OnlyRunTriggerShortens ==
    [][ Len(store'.events) < Len(store.events) =>
            (pc # "idle" /\ cb.triggered_id = "button-run" /\ ~ClearStep) ]_vars

\* C9 amended: a run trigger starts from an empty log; a resume starts from
\* the log the events store holds; the store's list is replaced by one that
\* does not extend it only by the Clear button or by an invocation that a
\* run trigger started.
C9_LogResetOnRunOrClear ==
    [][ /\ RunTriggerStep => cb'.events_data = EmptyEventsData
        /\ ModalSubmitStep => cb'.events_data = store
        /\ ~IsPrefix(store.events, store'.events) =>
              (ClearStep \/ (pc # "idle" /\ cb.triggered_id = "button-run"))
        /\ (pc' # "idle" /\ cb'.triggered_id = "modal-submit") =>
              IsPrefix(store'.events, cb'.events_data.events) ]_vars

\* C9 witness: after a resume the events logged before the pause are still
\* the head of the log, and a later event has been added.
C9_Witness ==
    /\ pc = "stream"
    /\ cb.triggered_id = "modal-submit"
    /\ Len(obs.base.events) = 1
    /\ Len(cb.events_data.events) = 2
    /\ IsPrefix(obs.base.events, cb.events_data.events)
    /\ store.events = cb.events_data.events

\* C10: the chat transcript only grows: every step leaves the old
\* transcript as a prefix of the new one, and the transcript an invocation
\* is about to return extends the one on the page.
C10_ChatAppendOnly ==
    [][ /\ IsPrefix(chat, chat')
        /\ pc' # "idle" => IsPrefix(chat', cb'.chat_messages) ]_vars

\* C10 witness: a query, the answer typed into the modal and the response
\* follow each other in the transcript after a pause and a resume.
C10_Witness ==
    /\ pc = "idle"
    /\ obs.pauses = 1
    /\ obs.resumes = 1
    /\ Len(chat) = 3
    /\ chat[1].role = "user" /\ chat[2].role = "user"
    /\ chat[3].role = "response"

----------------------------------------------------------------------------
\* Claims about the pure functions are read at the applications SpecFn has
\* made.

Applied(fn) == call.fn = fn /\ call.done

\* Whether a declared output can be located on the result.
Located(result, output_name) ==
    hasattr(result, output_name)
    \/ (result.t = "dict" /\ HasField(result, output_name))

\* C11: on Stop every declared output gets a formatted value, and a
\* declared output whose name cannot be located on the result is formatted
\* from the whole result.
C11_MissingFieldFormatsWholeResult ==
    (Applied("Viz") \/ Applied("DashBackend")) =>
        /\ Len(call.ret) = Len(call.outputs)
        /\ \A i \in 1..Len(call.outputs) :
              (~IsSimpleResult(call.outputs)
                  /\ ~Located(call.result, call.outputs[i].name)) =>
                 call.ret[i] = format_output_value(call.result,
                                                   call.outputs[i].type)

\* The step that applies what an invocation returns to the page.
ReturnStep == pc = "return" /\ pc' = "idle"

\* C12: a run that ends with Stop appends exactly one response block to the
\* chat transcript, whatever the result; an invocation that pauses on
\* InputRequired appends none.
C12_StopAppendsOneResponse ==
    [][ ReturnStep =>
            IF obs.last_event = "Stop"
            THEN /\ Len(chat') = Len(cb.chat_messages) + 1
                 /\ IsPrefix(cb.chat_messages, chat')
                 /\ chat'[Len(chat')].role = "response"
            ELSE chat' = cb.chat_messages ]_vars

\* C13: the run trigger is disabled in every state in which the controller
\* is Running or AwaitingHumanInput, in particular while the modal is open
\* waiting for the human's input.
C13_RunTriggerDisabledWhileBusy ==
    (Running \/ AwaitingHumanInput) => disabled

\* C14: while the controller waits for the human's input, the prompt text
\* shown in the modal is the prompt of the InputRequired event the run
\* paused on.
C14_ModalShowsEventPrompt ==
    AwaitingHumanInput => modal_prompt = obs.prompt

\* The step of the event loop that takes an event of the given kind.
TakesEvent(kind) ==
    /\ pc = "stream"
    /\ handler.queue # << >>
    /\ Head(handler.queue).kind = kind
    /\ handler'.queue = Tail(handler.queue)

\* C15: an Error event does not end the run: its card is appended to the
\* log and pushed like any other, and the invocation stays in the event
\* loop; the loop is left only on a Stop or an InputRequired event.
C15_ErrorEventDoesNotEndRun ==
    [][ /\ TakesEvent("Error") =>
              /\ pc' = "stream"
              /\ cb'.events_data.events
                    = Append(cb.events_data.events,
                             EventCard(Head(handler.queue)))
              /\ store'.events = cb'.events_data.events
              /\ obs'.pushes = obs.pushes + 1
        /\ (pc = "stream" /\ pc' # "stream") =>
              /\ handler.queue # << >>
              /\ Head(handler.queue).kind \in {"Stop", "InputRequired"}
              /\ obs'.last_event = Head(handler.queue).kind ]_vars

\* C15 witness: an Error event was logged, the event after it was consumed
\* and logged too, and the loop is still running.
C15_Witness ==
    /\ pc = "stream"
    /\ Len(cb.events_data.events) = 2
    /\ cb.events_data.events[1].kind = "Error"
    /\ cb.events_data.events[2].kind = "Info"
    /\ store.events = cb.events_data.events

\* C16: on a resume no input widget value goes into the engine call: the
\* run parameters built from the input widgets are empty, whatever the
\* widgets hold, and the modal response is the only datum handed over.
C16_ResumePassesNoInputField ==
    [][ (AwaitingHumanInput /\ ModalSubmitStep) =>
            obs'.params = << >> ]_vars

\* Whether formatting a value throws: the exception leaves
\* format_output_value, or it is raised in one of its try statements.
FormatFails(value, type_hint) ==
    \/ format_output_value(value, type_hint).t = "raise"
    \/ /\ value # PyNone
       /\ type_hint \notin {"str", "int", "float", "bool", "HttpUrl",
                            "DataFrame", "Figure"}
       /\ HasName(type_hint)
       /\ try_json(value, type_hint).t = "raise"

\* C17: if formatting fails for a declared output field, the callback is
\* not ended by the exception, that field gets the string form of the whole
\* result, and every other field gets its formatted value.
C17_FormatFailureFallsBack ==
    Applied("Viz") =>
        \A i \in 1..Len(call.outputs) :
            (~IsSimpleResult(call.outputs)
                /\ FormatFails(ExtractOutput(call.result, call.outputs[i].name),
                               call.outputs[i].type)) =>
               /\ \A j \in 1..Len(call.ret) : call.ret[j].t # "raise"
               /\ call.ret[i] = str(call.result)
               /\ \A j \in 1..Len(call.outputs) : j # i =>
                     call.ret[j]
                        = format_output_value(
                              ExtractOutput(call.result, call.outputs[j].name),
                              call.outputs[j].type)

\* Whether serializing an event's data fails.
SerializationFails(e) == e.arg.t = "raise" \/ json_dumps(e.arg).t = "raise"

C19_EmptyIsOmittedExceptBoolean ==
    /\ (Applied("parse_input_value") /\ IsEmptyValue(call.value)) =>
          call.ret = IF call.type_hint = "bool" THEN PyBool(FALSE) ELSE PyNone
    /\ Applied("run_params") =>
          /\ call.ret.t = "dict"
          /\ \A k \in 1..Len(call.ret.f) :
                \E i \in 1..Len(call.inputs) :
                    call.inputs[i].name = call.ret.f[k][1]
          /\ \A i \in 1..Len(call.inputs) :
                LET name == call.inputs[i].name
                    type == call.inputs[i].type
                    parsed == parse_input_value(call.values[i], type)
                IN  /\ type = "bool" =>
                          (HasField(call.ret, name)
                              /\ Field(call.ret, name).t = "bool")
                    /\ (type # "bool" /\ IsEmptyValue(call.values[i])) =>
                          ~HasField(call.ret, name)
                    /\ HasField(call.ret, name) <=> parsed # PyNone
                    /\ HasField(call.ret, name) =>
                          Field(call.ret, name) = parsed

\* C19 witness: of a text field left empty and a checkbox never touched,
\* the run parameters hold the checkbox alone, as False.
C19_Witness ==
    /\ Applied("run_params")
    /\ call.inputs[1].type = "str" /\ call.inputs[2].type = "bool"
    /\ call.values = << PyStr(<< >>), PyNone >>
    /\ call.ret = PyDict(<< << "b", PyBool(FALSE) >> >>)

\* A decimal numeral as a user writes it: digits, for a float optionally
\* followed by a point and digits, with an optional minus sign in front;
\* and the number it stands for, digit by digit.
IsNumeral(s, type_hint) ==
    LET body == IF s # << >> /\ s[1] = "-" THEN Tail(s) ELSE s
        dots == {i \in 1..Len(body) : body[i] = "."}
    IN  /\ body # << >>
        /\ \A i \in 1..Len(body) : IsDigit(body[i]) \/ i \in dots
        /\ dots = {} \/ (/\ type_hint = "float"
                         /\ Cardinality(dots) = 1
                         /\ 1 \notin dots /\ Len(body) \notin dots)

RECURSIVE PlaceSum(_, _)
PlaceSum(s, i) ==
    IF i > Len(s) THEN 0
    ELSE DigitValue(s[i]) * Pow10(Len(s) - i) + PlaceSum(s, i + 1)

NumeralValue(s, type_hint) ==
    LET body == IF s[1] = "-" THEN Tail(s) ELSE s
        digits == SelectSeq(body, IsDigit)
        places == IF \E i \in 1..Len(body) : body[i] = "."
                  THEN Len(body) - (CHOOSE i \in 1..Len(body) : body[i] = ".")
                  ELSE 0
        n == (IF s[1] = "-" THEN -1 ELSE 1) * PlaceSum(digits, 1)
    IN  IF type_hint = "int" THEN PyInt(n) ELSE PyFloat(n, places)

Zero(type_hint) == IF type_hint = "int" THEN PyInt(0) ELSE PyFloat(0, 0)

\* C20: for int and float fields parse_input_value never fails: an empty
\* value gives None; any other value gives a number of the field's type,
\* which is the number written for a well-formed numeral and for a numeric
\* value of that type, and zero for a text that is not a number.
C20_NumbersParseOrBecomeZero ==
    (Applied("parse_input_value") /\ call.type_hint \in {"int", "float"}) =>
        /\ call.ret.t # "raise"
        /\ IsEmptyValue(call.value) => call.ret = PyNone
        /\ ~IsEmptyValue(call.value) => call.ret.t = call.type_hint
        /\ (call.value.t = "str" /\ IsNumeral(call.value.s, call.type_hint)) =>
              call.ret = NumeralValue(call.value.s, call.type_hint)
        /\ (call.value.t = "str" /\ call.value.s # << >>
               /\ \/ \E i \in 1..Len(call.value.s) : call.value.s[i] = "x"
                  \/ \A i \in 1..Len(call.value.s) : ~IsDigit(call.value.s[i])) =>
              call.ret = Zero(call.type_hint)
        /\ call.value.t = call.type_hint => call.ret = call.value
        /\ (call.value.t = "int" /\ call.type_hint = "float") =>
              call.ret = PyFloat(call.value.n, 0)

\* C20 witness: the text "1x" typed into an int field has become 0.
C20_Witness ==
    /\ Applied("parse_input_value")
    /\ call.type_hint = "int"
    /\ call.value = PyStr(<< "1", "x" >>)
    /\ call.ret = PyInt(0)

----------------------------------------------------------------------------
\* The JSON grammar, as a relation between a text and the value it denotes
\* (numbers without exponent, strings escaped as json writes them, objects
\* without repeated keys).

LastInk(s) == CHOOSE i \in 1..Len(s) :
                 /\ s[i] \notin JsonWhitespace
                 /\ \A j \in (i + 1)..Len(s) : s[j] \in JsonWhitespace

JsonTrim(s) ==
    IF \A i \in 1..Len(s) : s[i] \in JsonWhitespace THEN << >>
    ELSE SubSeq(s, SkipWs(s, 1), LastInk(s))

IsJsonNumber(s) ==
    LET body == IF s # << >> /\ s[1] = "-" THEN Tail(s) ELSE s
    IN  /\ IsNumeral(s, "float")
        /\ (Len(body) > 1 /\ body[1] = "0") => body[2] = "."

JsonNumber(s) ==
    NumeralValue(s, IF \E i \in 1..Len(s) : s[i] = "." THEN "float" ELSE "int")

RECURSIVE Denotes(_, _)
RECURSIVE DenotesElements(_, _)
RECURSIVE DenotesItems(_, _)

DenotesElements(inner, f) ==
    IF Len(f) = 1 THEN Denotes(inner, f[1][2])
    ELSE \E i \in 1..Len(inner) :
            /\ inner[i] = ","
            /\ Denotes(SubSeq(inner, 1, i - 1), f[1][2])
            /\ DenotesElements(SubSeq(inner, i + 1, Len(inner)), Tail(f))

DenotesItem(part, item) ==
    \E c \in 1..Len(part) :
        /\ part[c] = ":"
        /\ Denotes(SubSeq(part, 1, c - 1),
                   PyStr(IF item[1] = "" THEN << >> ELSE << item[1] >>))
        /\ Denotes(SubSeq(part, c + 1, Len(part)), item[2])

DenotesItems(inner, f) ==
    IF Len(f) = 1 THEN DenotesItem(inner, f[1])
    ELSE \E i \in 1..Len(inner) :
            /\ inner[i] = ","
            /\ DenotesItem(SubSeq(inner, 1, i - 1), f[1])
            /\ DenotesItems(SubSeq(inner, i + 1, Len(inner)), Tail(f))

Denotes(text, v) ==
    LET s == JsonTrim(text)
        inner == SubSeq(s, 2, Len(s) - 1)
        Wrapped(open, close) ==
            Len(s) >= 2 /\ s[1] = open /\ s[Len(s)] = close
    IN  CASE v.t = "none" -> s = << "n", "u", "l", "l" >>
          [] v.t = "bool" -> s = IF v.n = 1 THEN << "t", "r", "u", "e" >>
                                 ELSE << "f", "a", "l", "s", "e" >>
          [] v.t \in {"int", "float"} -> IsJsonNumber(s) /\ JsonNumber(s) = v
          [] v.t = "str" -> Wrapped("\"", "\"") /\ inner = JsonEscape(v.s)
          [] v.t = "list" ->
                /\ Wrapped("[", "]")
                /\ IF v.f = << >> THEN JsonTrim(inner) = << >>
                   ELSE DenotesElements(inner, v.f)
          [] v.t = "dict" ->
                /\ Wrapped("{", "}")
                /\ \A i, j \in 1..Len(v.f) : v.f[i][1] = v.f[j][1] => i = j
                /\ IF v.f = << >> THEN JsonTrim(inner) = << >>
                   ELSE DenotesItems(inner, v.f)
          [] OTHER -> FALSE

\* A text in quotes that holds no quote, backslash or control character is
\* the JSON string of what is between the quotes.
IsPlainJsonString(s) ==
    /\ Len(s) >= 2 /\ s[1] = "\"" /\ s[Len(s)] = "\""
    /\ \A i \in 2..(Len(s) - 1) : s[i] \notin {"\"", "\\"} \cup ControlChars

\* The other values a text of the model can denote.
JsonElements ==
    {PyInt(n) : n \in {-11, -10, -1, 0, 1, 10, 11}}
    \cup {PyStr(<< >>), PyList(<< >>), PyDict(<< >>), PyNone, PyBool(TRUE),
          PyFloat(15, 1), PyInt(2)}
JsonUniverse ==
    JsonElements \cup {PyStr(<< "a", "\"", "b" >>)}
    \cup {PyList(<< << "", x >> >>) : x \in JsonElements}
    \cup {PyList(<< << "", x >>, << "", y >> >>) :
             x \in JsonElements, y \in JsonElements}
    \cup {PyDict(<< << "a", x >> >>) :
             x \in JsonElements
                   \cup {PyList(<< << "", PyInt(1) >>, << "", PyNone >> >>)}}

EmptyOf(type_hint) == IF type_hint = "list" THEN PyList(<< >>) ELSE PyDict(<< >>)

\* C21: for list and dict fields parse_input_value of a non-empty raw value
\* never fails; it gives the value the text denotes as JSON when the text is
\* valid JSON, and the empty list (list field) or empty dict (dict field)
\* when it is not, as for a raw value that is not a text.
C21_JsonDecodedOrEmpty ==
    (Applied("parse_input_value") /\ call.type_hint \in {"list", "dict"}
        /\ ~IsEmptyValue(call.value)) =>
        /\ call.ret.t # "raise"
        /\ call.value.t # "str" => call.ret = EmptyOf(call.type_hint)
        /\ call.value.t = "str" =>
              /\ Denotes(call.value.s, call.ret)
                    \/ call.ret = EmptyOf(call.type_hint)
              /\ IsJsonNumber(JsonTrim(call.value.s)) =>
                    call.ret = JsonNumber(JsonTrim(call.value.s))
              /\ IsPlainJsonString(JsonTrim(call.value.s)) =>
                    call.ret = PyStr(SubSeq(JsonTrim(call.value.s), 2,
                                            Len(JsonTrim(call.value.s)) - 1))
              /\ \A v \in JsonUniverse :
                    Denotes(call.value.s, v) => call.ret = v

\* C21 witness: the text {"a":1} written into a dict field has become the
\* dict with the item a: 1.
C21_Witness ==
    /\ Applied("parse_input_value")
    /\ call.type_hint = "dict"
    /\ call.value = PyStr(<< "{", "\"", "a", "\"", ":", "1", "}" >>)
    /\ call.ret = PyDict(<< << "a", PyInt(1) >> >>)

\* Whether a value is an instance of the model a type hint names: it holds
\* the declared fields, in order, each with a value of the declared type.
IsRecordOf(v, type_hint) ==
    LET fields == ModelFields(type_hint)
    IN  /\ v.t = "model"
        /\ Len(v.f) = Len(fields)
        /\ \A i \in 1..Len(fields) :
              v.f[i][1] = fields[i].name /\ v.f[i][2].t = fields[i].type

\* Whether a text certainly is no record of the model: it is not JSON, or
\* it denotes a value that is not an object, or it denotes an object on
\* which a declared field is missing.
IsNoRecord(text, type_hint) ==
    \/ json_loads(PyStr(text)).t # "dict"
    \/ \E i \in 1..Len(ModelFields(type_hint)) :
          ~HasItem(json_loads(PyStr(text)), ModelFields(type_hint)[i].name)

\* C22: for a pydantic model field, parsing the JSON serialization of a
\* record gives that record back; parsing never fails, gives a record of
\* the declared shape or None, and gives None for a raw value that is not
\* a text and for a text that is not JSON, is not a JSON object, lacks a
\* declared field or holds a value the field's type does not take.
C22_RecordRoundTripOrNone ==
    (Applied("parse_input_value") /\ call.type_hint = "BaseModel"
        /\ ~IsEmptyValue(call.value)) =>
        /\ call.ret.t # "raise"
        /\ call.ret = PyNone \/ IsRecordOf(call.ret, call.type_hint)
        /\ \A r \in Records :
              call.value = model_dump_json(r) => call.ret = r
        /\ call.value.t # "str" => call.ret = PyNone
        /\ (call.value.t = "str"
               /\ \/ IsNoRecord(call.value.s, call.type_hint)
                  \/ call.value.s \in NotRecords) => call.ret = PyNone

\* C22 witness: the serialization of the record with n = -12 and s = a
\* quote character has been parsed back into that record.
C22_Witness ==
    /\ Applied("parse_input_value")
    /\ call.type_hint = "BaseModel"
    /\ call.value
          = model_dump_json(Record("BaseModel",
                                   << PyInt(-12), PyStr(<< "\"" >>) >>))
    /\ call.ret = Record("BaseModel", << PyInt(-12), PyStr(<< "\"" >>) >>)
    /\ call.ret.f[2][2].s = << "\"" >>

\* C23: format_output_value of None gives the empty string when the type
\* hint is str and None for every other type hint, also for a hint that has
\* no __name__; it never fails on None.
C23_NoneFormatsToEmptyOrNone ==
    (Applied("format_output_value") /\ call.value = PyNone) =>
        /\ call.ret.t \in {"str", "none"}
        /\ call.ret.t = "str" <=> call.type_hint = "str"
        /\ call.ret.t = "str" => call.ret.s = << >>

\* C23 witness: None has been formatted for an int field, and is None.
C23_Witness ==
    /\ Applied("format_output_value")
    /\ call.value = PyNone
    /\ call.type_hint = "int"
    /\ call.ret = PyNone

\* The widget of a bool output field.
BoolOutput == get_output_component("bool")

\* C24 as stated: a bool output value is shown in a read-only text box as
\* the text "true" for true and "false" for false.
C24_BooleanRenderedLowercase ==
    (Applied("format_output_value") /\ call.type_hint = "bool"
        /\ call.value.t = "bool") =>
        /\ call.ret = PyStr(IF call.value.n = 1
                            THEN << "t", "r", "u", "e" >>
                            ELSE << "f", "a", "l", "s", "e" >>)
        /\ BoolOutput.s = << "Input" >>
        /\ HasField(BoolOutput, "readOnly")

\* C24 amended: a bool output value is shown in a text input, which is not
\* marked read-only, through its property "value", as the text "True" for
\* true and "False" for false.
C24_BooleanRenderedAsPythonText ==
    (Applied("format_output_value") /\ call.type_hint = "bool"
        /\ call.value.t = "bool") =>
        /\ call.ret = PyStr(IF call.value.n = 1
                            THEN << "T", "r", "u", "e" >>
                            ELSE << "F", "a", "l", "s", "e" >>)
        /\ BoolOutput.s = << "Input" >>
        /\ Field(BoolOutput, "type") = PyStr(<< "text" >>)
        /\ Field(BoolOutput, "property_name") = PyStr(<< "value" >>)
        /\ ~HasField(BoolOutput, "readOnly")

\* C24 witness: the value true of a bool field has been formatted.
C24_Witness ==
    /\ Applied("format_output_value")
    /\ call.type_hint = "bool"
    /\ call.value = PyBool(TRUE)
    /\ call.ret = PyStr(<< "T", "r", "u", "e" >>)

\* A type hint neither mapper has a case for.
IsUnknownHint(type_hint) == type_hint \in {"bytes", "int | None"}

\* C25: the two widget mappers are total: for every type hint each returns
\* a component and the name of its value property and never fails; a hint
\* that is none of the recognised cases gets a text input on the input side
\* and a read-only text area on the output side.
C25_WidgetMappersTotal ==
    /\ Applied("get_input_component") =>
          /\ call.ret.t = "obj"
          /\ HasField(call.ret, "property_name")
          /\ IsUnknownHint(call.type_hint) => call.ret = TextInput("input")
    /\ Applied("get_output_component") =>
          /\ call.ret.t = "obj"
          /\ HasField(call.ret, "property_name")
          /\ IsUnknownHint(call.type_hint) => call.ret = ReadOnlyTextarea

\* Whether a schema lists the declared fields, in declaration order, each
\* with its annotation, or with str where the annotation is Any.
ListsDeclared(schema, model_fields) ==
    /\ Len(schema) = Len(model_fields)
    /\ \A i \in 1..Len(model_fields) :
          /\ schema[i].name = model_fields[i].name
          /\ model_fields[i].annotation # "Any" =>
                schema[i].type = model_fields[i].annotation
          /\ model_fields[i].annotation = "Any" => schema[i].type = "str"

\* C26: get_workflow_outputs gives the single field result: str when the
\* workflow's stop event class is the default StopEvent, and otherwise the
\* declared fields in declaration order; get_workflow_inputs gives the
\* declared start fields in order; in both a field annotated Any has the
\* type str.
C26_SchemaIntrospection ==
    /\ Applied("get_workflow_outputs") =>
          IF call.workflow.is_stop_event
          THEN /\ Len(call.ret) = 1
               /\ call.ret[1].name = "result" /\ call.ret[1].type = "str"
          ELSE ListsDeclared(call.ret, call.workflow.stop_fields)
    /\ Applied("get_workflow_inputs") =>
          ListsDeclared(call.ret, call.workflow.start_fields)

\* C26 witness: a stop event class declaring b: Any and then a: int has
\* given the outputs b: str, a: int, in that order.
C26_Witness ==
    /\ Applied("get_workflow_outputs")
    /\ ~call.workflow.is_stop_event
    /\ call.workflow.stop_fields
          = << [name |-> "b", annotation |-> "Any"],
               [name |-> "a", annotation |-> "int"] >>
    /\ call.ret = << [name |-> "b", type |-> "str"],
                     [name |-> "a", type |-> "int"] >>

----------------------------------------------------------------------------
\* The step of the event loop that deals with the event of the given kind
\* at the head of the stream: it goes on with the rest of the stream or
\* leaves the loop.
ConsumesHead(kind) ==
    /\ pc = "stream"
    /\ handler.queue # << >>
    /\ Head(handler.queue).kind = kind
    /\ \/ pc' = "return"
       \/ handler'.queue = Tail(handler.queue)

\* C27: a Stop or InputRequired event is never appended to the events log
\* and never increments the event counter, neither in the invocation's
\* working copy nor in the store; so a run whose stream holds only Stop
\* leaves the loop with an empty log and a count of 0, and the return
\* leaves the store with as many cards as that log.
C27_MarkersNeverLogged ==
    [][ /\ (ConsumesHead("Stop") \/ ConsumesHead("InputRequired")) =>
              /\ cb'.events_data = cb.events_data
              /\ cb'.event_count = cb.event_count
              /\ store' = store
              /\ obs'.pushes = obs.pushes
        /\ ( /\ ConsumesHead("Stop")
             /\ cb.triggered_id = "button-run"
             /\ Len(obs.emitted) = 1 ) =>
              /\ cb'.events_data.events = << >>
              /\ cb'.event_count = 0
        /\ ReturnStep => Len(store'.events) = Len(cb.events_data.events) ]_vars

\* C27 witness: the second run of a session has streamed only Stop with
\* the result "4" and is about to return; its log is empty while the store
\* still shows the cards of the run before.
C27_Witness ==
    /\ pc = "return"
    /\ cb.triggered_id = "button-run"
    /\ obs.last_event = "Stop"
    /\ cb.result = PyStr(<< "4" >>)
    /\ cb.events_data = EmptyEventsData
    /\ cb.event_count = 0
    /\ store.events # << >>
    /\ engine.calls = 2

----------------------------------------------------------------------------
\* C28: once the event loop meets InputRequired it is left at once and what
\* the stream holds behind the event is dropped with the handler; the
\* return that follows appends nothing; and while the controller waits for
\* the human's input no step consumes an event or extends the log: the
\* only step that leaves the waiting state is a modal submit.
C28_NothingConsumedUntilSubmit ==
    [][ /\ ConsumesHead("InputRequired") =>
              /\ pc' = "return"
              /\ handler'.queue = << >>
              /\ cb'.events_data = cb.events_data
        /\ (pc = "return" /\ obs.last_event = "InputRequired") =>
              /\ handler' = handler
              /\ engine' = engine
              /\ Len(store'.events) <= Len(cb.events_data.events)
        /\ AwaitingHumanInput =>
              \/ ModalSubmitStep
              \/ /\ pc' = "idle"
                 /\ handler' = handler
                 /\ engine' = engine
                 /\ Len(store'.events) <= Len(store.events) ]_vars

----------------------------------------------------------------------------
\* C29: every run trigger that starts an invocation clears the stored
\* context before the engine is called: the call carries no ctx argument,
\* the engine makes a context it has not made before, the handler runs on
\* it and it is not the one an earlier run left in self._ctx.
C29_RunTriggerStartsFresh ==
    [][ RunTriggerStep =>
            /\ obs'.ctx_arg = 0
            /\ engine'.nctx = engine.nctx + 1
            /\ handler'.ctx = engine'.nctx
            /\ handler'.ctx # self_ctx
            /\ self_ctx' = handler'.ctx ]_vars

\* C29 witness: a first run has completed with the result "4" and left its
\* context behind; the second run trigger has started the engine without a
\* ctx argument, on a second context.
C29_Witness ==
    /\ pc = "stream"
    /\ cb.triggered_id = "button-run"
    /\ engine.calls = 2
    /\ output_widgets[1] = PyStr(<< "4" >>)
    /\ obs.ctx_arg = 0
    /\ handler.ctx = 2
    /\ self_ctx = 2

----------------------------------------------------------------------------
\* C30: a running invocation brings the controller back to Idle only by
\* the return that follows a Stop event; and the return that follows a Stop
\* leaves the controller Idle with the modal closed, the output widgets
\* holding the formatted result and the run trigger enabled.
C30_StopEndsRunIdle ==
    [][ /\ (Running /\ Idle') =>
              /\ ReturnStep
              /\ obs.last_event = "Stop"
        /\ (ReturnStep /\ obs.last_event = "Stop") =>
              /\ Idle'
              /\ ~is_open'
              /\ ~disabled'
              /\ output_widgets' = FormattedOutputs(Outputs, cb.result) ]_vars

----------------------------------------------------------------------------
\* C31: an invocation of the callback without an identified trigger starts
\* no execution and changes nothing: the stored context, the events store,
\* the chat, the modal, every widget value, the button and the engine are
\* as they were, and no invocation leaves the idle state without a trigger.
C31_NoTriggerChangesNothing ==
    [][ /\ obs'.prevented # obs.prevented =>
              UNCHANGED << self_ctx, store, chat, is_open, input_widgets,
                           modal_input, output_widgets, modal_prompt,
                           disabled, pc, cb, handler, engine >>
        /\ (pc = "idle" /\ pc' # "idle") =>
              cb'.triggered_id \in {"button-run", "modal-submit"} ]_vars

\* C31 witness: the callback was invoked without a trigger while the modal
\* was open on a paused run, with text in the input widget and in the
\* modal's text area; nothing was started.
C31_Witness ==
    /\ obs.prevented = 1
    /\ pc = "idle"
    /\ is_open
    /\ obs.last_event = "InputRequired"
    /\ self_ctx = 1
    /\ engine.calls = 1
    /\ input_widgets[1] = PyStr(<< "2" >>)
    /\ modal_input = PyStr(<< "5" >>)

----------------------------------------------------------------------------
\* C32: a HumanResponseEvent is sent into an execution only by an
\* invocation that a modal submit triggered: the invocation a run trigger
\* starts sends none, whatever text the modal's text area still holds.
C32_ResponseOnlyOnModalSubmit ==
    [][ (pc = "idle" /\ pc' = "stream" /\ obs'.sent # PyNone) =>
            cb'.triggered_id = "modal-submit" ]_vars

----------------------------------------------------------------------------
\* C33: whenever the run callback returns, after a completed run or after a
\* pause, the list it returns holds one value for each output the callback
\* is registered with, in the order of the registration.
C33_OneValuePerOutput ==
    pc = "return" =>
        /\ Len(output_values(cb.result))
              = Len(Inputs) + Len(Outputs) + 3
        /\ output_values(cb.result) = CallbackOutputs

----------------------------------------------------------------------------
\* C34: in every value the events store holds, whether an incremental push
\* or the value the callback returned, the count is the number of cards in
\* the list.
C34_CountMatchesLog ==
    store.count = Len(store.events)

----------------------------------------------------------------------------
\* The cards of a log.  A card carries the number of its event, so no two
\* cards of a session are equal.
CardsIn(events) == {events[i] : i \in 1..Len(events)}

\* C35: a card that was cleared from the events store never comes back.
\* The cards the running invocation has logged have all been in the store
\* (they were there at the trigger or were pushed), and only the Clear
\* action removes cards while an invocation runs; so no step, push or
\* final return, writes to the store a card the invocation had logged
\* before and the store no longer holds.
C35_ClearedEventsStayCleared ==
    [][ (CardsIn(store'.events) \cap CardsIn(cb.events_data.events))
            \subseteq CardsIn(store.events) ]_vars

----------------------------------------------------------------------------
\* C36: parse_input_value keeps the shape of a collection field: for every
\* raw value, the result for a list field is None or a list, and the result
\* for a dict field is None or a dict.
C36_CollectionShapePreserved ==
    (Applied("parse_input_value") /\ call.type_hint \in {"list", "dict"}) =>
        call.ret.t \in {"none", call.type_hint}

----------------------------------------------------------------------------
\* C37: the declared output is the single field "result", so the return
\* after a Stop sets the one output widget to the formatted whole result,
\* without looking up an attribute or key on it; for a result that is a
\* text and a str field the widget holds that text.
C37_WholeResultFormatted ==
    [][ (ReturnStep /\ obs.last_event = "Stop" /\ IsSimpleResult(Outputs)) =>
            /\ output_widgets'
                  = << format_output_value(cb.result, Outputs[1].type) >>
            /\ (cb.result.t = "str" /\ Outputs[1].type = "str") =>
                  output_widgets'[1] = cb.result ]_vars

----------------------------------------------------------------------------
============================================================================
